---- MODULE Spec2Model ----
(***************************************************************************)
(* Verification model of the multi-venue swap execution engine of          *)
(* base-volume-bot: slippage arithmetic, swap encoding, the tenacity retry *)
(* wrapper of the V4 router and the fallback chain of VolumeBot.           *)
(***************************************************************************)
EXTENDS Integers, Sequences, FiniteSets, TLC

(***************************************************************************)
(* Python integers are unbounded.  Amounts in base units exceed the range  *)
(* of TLC's 32-bit integers, so an amount is a little-endian sequence of  *)
(* limbs in base LimbBase with no most-significant zero limb; <<>> is 0.   *)
(***************************************************************************)
LimbBits == 12

LimbBase == 4096

RECURSIVE Pow(_, _)
Pow(b, k) == IF k = 0 THEN 1 ELSE b * Pow(b, k - 1)

RECURSIVE BigNorm(_)
BigNorm(a) ==
    IF a = <<>> THEN <<>>
    ELSE IF a[Len(a)] = 0 THEN BigNorm(SubSeq(a, 1, Len(a) - 1))
    ELSE a

RECURSIVE Big(_)
Big(n) == IF n = 0 THEN <<>> ELSE <<n % LimbBase>> \o Big(n \div LimbBase)

Limb(a, i) == IF i >= 1 /\ i <= Len(a) THEN a[i] ELSE 0

MaxLen(a, b) == IF Len(a) >= Len(b) THEN Len(a) ELSE Len(b)

RECURSIVE BigCmpFrom(_, _, _)
BigCmpFrom(a, b, i) ==
    IF i = 0 THEN 0
    ELSE IF Limb(a, i) < Limb(b, i) THEN -1
    ELSE IF Limb(a, i) > Limb(b, i) THEN 1
    ELSE BigCmpFrom(a, b, i - 1)

BigCmp(a, b) == BigCmpFrom(a, b, MaxLen(a, b))

BigLe(a, b) == BigCmp(a, b) <= 0

BigLt(a, b) == BigCmp(a, b) < 0

RECURSIVE BigAddFrom(_, _, _, _)
BigAddFrom(a, b, i, carry) ==
    IF i > MaxLen(a, b)
    THEN (IF carry = 0 THEN <<>> ELSE <<carry>>)
    ELSE LET s == Limb(a, i) + Limb(b, i) + carry
         IN  <<s % LimbBase>> \o BigAddFrom(a, b, i + 1, s \div LimbBase)

BigAdd(a, b) == BigNorm(BigAddFrom(a, b, 1, 0))

RECURSIVE BigSubFrom(_, _, _, _)
BigSubFrom(a, b, i, borrow) ==
    IF i > Len(a) THEN <<>>
    ELSE LET d == Limb(a, i) - Limb(b, i) - borrow
         IN  IF d < 0
             THEN <<d + LimbBase>> \o BigSubFrom(a, b, i + 1, 1)
             ELSE <<d>> \o BigSubFrom(a, b, i + 1, 0)

\* a - b for a >= b
BigSub(a, b) == BigNorm(BigSubFrom(a, b, 1, 0))

RECURSIVE BigMulSmallFrom(_, _, _, _)
BigMulSmallFrom(a, c, i, carry) ==
    IF i > Len(a)
    THEN Big(carry)
    ELSE LET p == a[i] * c + carry
         IN  <<p % LimbBase>> \o BigMulSmallFrom(a, c, i + 1, p \div LimbBase)

\* a * c for a small factor c < 2^18
BigMulSmall(a, c) == BigNorm(BigMulSmallFrom(a, c, 1, 0))

Zeros(k) == [j \in 1..k |-> 0]

RECURSIVE BigMulFrom(_, _, _)
BigMulFrom(a, b, i) ==
    IF i > Len(b) THEN <<>>
    ELSE BigAdd(BigNorm(Zeros(i - 1) \o BigMulSmall(a, b[i])), BigMulFrom(a, b, i + 1))

BigMul(a, b) == BigMulFrom(a, b, 1)

\* long division by a small divisor d < 2^18, most significant limb first;
\* the result is <<quotient limbs, remainder>>
RECURSIVE BigDivModFrom(_, _, _, _)
BigDivModFrom(a, d, i, rem) ==
    IF i = 0 THEN <<<<>>, rem>>
    ELSE LET cur  == rem * LimbBase + a[i]
             rest == BigDivModFrom(a, d, i - 1, cur % d)
         IN  <<rest[1] \o <<cur \div d>>, rest[2]>>

BigDivSmall(a, d) == BigNorm(BigDivModFrom(a, d, Len(a), 0)[1])

BigModSmall(a, d) == BigDivModFrom(a, d, Len(a), 0)[2]

RECURSIVE BitLenSmall(_)
BitLenSmall(n) == IF n = 0 THEN 0 ELSE 1 + BitLenSmall(n \div 2)

BigBitLen(a) == IF a = <<>> THEN 0 ELSE LimbBits * (Len(a) - 1) + BitLenSmall(a[Len(a)])

BigShl(a, k) ==
    IF a = <<>> THEN <<>>
    ELSE BigNorm(Zeros(k \div LimbBits) \o BigMulSmall(a, Pow(2, k % LimbBits)))

BigShr(a, k) ==
    IF k \div LimbBits >= Len(a) THEN <<>>
    ELSE BigDivSmall(SubSeq(a, k \div LimbBits + 1, Len(a)), Pow(2, k % LimbBits))

\* bit i (0 = least significant) of a
BigBit(a, i) == (Limb(a, i \div LimbBits + 1) \div Pow(2, i % LimbBits)) % 2

\* TRUE iff some bit of a below bit i is set
BigAnyBelow(a, i) ==
    \/ \E j \in 1..(i \div LimbBits) : Limb(a, j) # 0
    \/ Limb(a, i \div LimbBits + 1) % Pow(2, i % LimbBits) # 0

BigIsOdd(a) == Limb(a, 1) % 2 = 1

RECURSIVE BigPow10(_)
BigPow10(k) == IF k = 0 THEN Big(1) ELSE BigMulSmall(BigPow10(k - 1), 10)

(***************************************************************************)
(* Python float: an IEEE-754 double, here a non-negative value m * 2^e     *)
(* with a mantissa m of at most MantissaBits bits.  Every operation        *)
(* returns the exact result rounded to nearest, ties to even.              *)
(***************************************************************************)
MantissaBits == 53

\* the double nearest to n * 2^e (plus a non-zero tail below n's last bit
\* when sticky)
Round53(n, sticky, e) ==
    LET L == BigBitLen(n) IN
    IF L <= MantissaBits THEN [m |-> n, e |-> e]
    ELSE LET sh == L - MantissaBits
             hi == BigShr(n, sh)
             up == /\ BigBit(n, sh - 1) = 1
                   /\ (sticky \/ BigAnyBelow(n, sh - 1) \/ BigIsOdd(hi))
         IN  [m |-> IF up THEN BigAdd(hi, Big(1)) ELSE hi, e |-> e + sh]

\* float(n) for a Python int n
FloatFromInt(n) == Round53(n, FALSE, 0)

FloatMul(x, y) == Round53(BigMul(x.m, y.m), FALSE, x.e + y.e)

\* x / d for a small integer d: the dividend is widened so that the
\* quotient keeps more than MantissaBits bits before it is rounded
FloatDivSmall(x, d) ==
    IF x.m = <<>> THEN x
    ELSE LET k == IF Len(x.m) >= 7 THEN 0 ELSE 7 - Len(x.m)
             n == Zeros(k) \o x.m
         IN  Round53(BigDivSmall(n, d), BigModSmall(n, d) # 0, x.e - LimbBits * k)

MinInt(a, b) == IF a <= b THEN a ELSE b

\* x - y for x >= y
FloatSub(x, y) ==
    LET e == MinInt(x.e, y.e)
    IN  Round53(BigSub(BigShl(x.m, x.e - e), BigShl(y.m, y.e - e)), FALSE, e)

\* int(x): truncation toward zero
FloatTrunc(x) == IF x.e >= 0 THEN BigShl(x.m, x.e) ELSE BigShr(x.m, 0 - x.e)

(***************************************************************************)
(* Python Decimal under the default context: a value c * 10^x whose        *)
(* coefficient is rounded half-even to DecimalPrec significant digits      *)
(* after every arithmetic operation (construction is exact).               *)
(***************************************************************************)
DecimalPrec == 28

RECURSIVE BigDigits(_)
BigDigits(a) ==
    IF a = <<>> THEN 0
    ELSE IF Len(a) > 1 THEN 3 + BigDigits(BigDivSmall(a, 1000))
    ELSE 1 + BigDigits(BigDivSmall(a, 10))

\* drop the k least significant decimal digits of c:
\* <<quotient, last digit dropped, TRUE iff an earlier dropped digit was non-zero>>
RECURSIVE DecDrop(_, _, _, _)
DecDrop(c, k, last, sticky) ==
    IF k = 0 THEN <<c, last, sticky>>
    ELSE LET q == BigDivSmall(c, 10)
             r == BigModSmall(c, 10)
             t == sticky \/ last # 0
         IN  IF r >= 0 /\ t \in BOOLEAN /\ Len(q) >= 0
             THEN DecDrop(q, k - 1, r, t)
             ELSE <<c, last, sticky>>

DecRound(c, x) ==
    LET D == BigDigits(c) IN
    IF D <= DecimalPrec THEN [c |-> c, x |-> x]
    ELSE LET d  == DecDrop(c, D - DecimalPrec, 0, FALSE)
             up == \/ d[2] > 5
                   \/ d[2] = 5 /\ (d[3] \/ BigIsOdd(d[1]))
         IN  [c |-> IF up THEN BigAdd(d[1], Big(1)) ELSE d[1], x |-> x + (D - DecimalPrec)]

\* Decimal(n) for a Python int n
DecFromInt(n) == [c |-> n, x |-> 0]

\* a * b^k for a small base b
RECURSIVE BigMulPow(_, _, _)
BigMulPow(a, b, k) ==
    IF k = 0 \/ a = <<>> THEN a
    ELSE LET v == BigMulSmall(a, b)
         IN  IF v = <<>> THEN v ELSE BigMulPow(v, b, k - 1)

\* Decimal(f) for a Python float f: the exact binary value
DecFromFloat(f) ==
    IF f.e >= 0 THEN [c |-> BigShl(f.m, f.e), x |-> 0]
    ELSE [c |-> BigMulPow(f.m, 5, 0 - f.e), x |-> f.e]

\* a / Decimal(100)
DecDiv100(a) == DecRound(a.c, a.x - 2)

\* a - b for a >= b
DecSub(a, b) ==
    LET x == MinInt(a.x, b.x)
    IN  DecRound(BigSub(BigMulPow(a.c, 10, a.x - x), BigMulPow(b.c, 10, b.x - x)), x)

DecMul(a, b) == DecRound(BigMul(a.c, b.c), a.x + b.x)

\* int(a): truncation toward zero
DecTrunc(a) ==
    IF a.x >= 0 THEN BigMulPow(a.c, 10, a.x)
    ELSE DecDrop(a.c, 0 - a.x, 0, FALSE)[1]

(***************************************************************************)
(* Slippage / minimum-output arithmetic, one operator per implementation.  *)
(***************************************************************************)
\* the slippage applied the wrong way round: the output kept is the part the
\* tolerance gives away
V4Router_min_amount_out_keeps_slippage(expected_amount, slippage_percent) ==
    FloatTrunc(FloatDivSmall(
        FloatMul(FloatFromInt(expected_amount), slippage_percent),
        100))

\* V4UniversalRouter._calculate_min_amount_out:
\*   int(expected_amount * (100 - slippage_percent) / 100)
V4Router_calculate_min_amount_out(expected_amount, slippage_percent) ==
    FloatTrunc(FloatDivSmall(
        FloatMul(FloatFromInt(expected_amount),
                 FloatSub(FloatFromInt(Big(100)), slippage_percent)),
        100))

\* ComputeTrader._calculate_min_amount_out:
\*   slippage_factor = 1 - (slippage_percent / 100)
\*   int(expected_amount * slippage_factor)
Trader_calculate_min_amount_out(expected_amount, slippage_percent) ==
    LET slippage_factor == FloatSub(FloatFromInt(Big(1)), FloatDivSmall(slippage_percent, 100))
    IN  FloatTrunc(FloatMul(FloatFromInt(expected_amount), slippage_factor))

\* V4Quoter.calculate_min_output:
\*   slippage_decimal = Decimal(slippage_percent) / Decimal(100)
\*   int(Decimal(expected_output) * (Decimal(1) - slippage_decimal))
calculate_min_output(expected_output, slippage_percent) ==
    LET slippage_decimal == DecDiv100(DecFromFloat(slippage_percent))
    IN  DecTrunc(DecMul(DecFromInt(expected_output),
                        DecSub(DecFromInt(Big(1)), slippage_decimal)))

\* the float a percentage literal denotes: the double nearest to bps / 100
PercentOf(bps) == FloatDivSmall(FloatFromInt(Big(bps)), 100)

(***************************************************************************)
(* State.                                                                  *)
(***************************************************************************)
VARIABLES
    expected_out,   \* slippage check: the expected output E (base units)
    slip_lo,           \* slippage check: a tolerance in basis points
    slip_hi,           \* slippage check: a tolerance >= slip_lo
    min_lo,            \* implementation -> minimum output at slip_lo
    min_hi,            \* implementation -> minimum output at slip_hi
    use_zerox,         \* config.zerox_api_key is set
    use_oneinch,       \* config.oneinch_api_key is set
    max_retries,       \* V4UniversalRouter.max_retries (constructor argument)
    best_dex,          \* MultiDEXRouter.best_dex, set by discovery at construction
    dry_run,           \* config.dry_run
    prior_allowance,   \* token.allowance(account, spender) before the operation
    op,                \* the operation in progress: "none", "buy" or "sell"
    pc,                \* position of execute_buy / execute_sell in the route chain
    route_log,         \* routes called by the operation, in order, with their result
    op_result,         \* what the operation returned, NoValue while it runs
    attempt_number,    \* tenacity attempt number of the running V4 router call
    v4_attempts,       \* one record per V4 router attempt of the operation
    total_swaps,       \* V4UniversalRouter.total_swaps
    successful_swaps,  \* V4UniversalRouter.successful_swaps
    buy_count,         \* VolumeBot.buy_count
    successful_buys,   \* VolumeBot.successful_buys
    failed_buys,       \* VolumeBot.failed_buys
    chain_nonce,       \* transactions of the signer mined so far ("latest" count)
    pending,           \* indices in sent of broadcast transactions not yet mined
    mined,             \* index in sent -> receipt status, for mined transactions
    sent,              \* every signed transaction the node accepted, in order
    now,               \* wall clock, seconds
    tokenA,            \* pool check: a token address as the caller spelled it
    tokenB,            \* pool check: the other token address
    feeIn,             \* pool check: the fee tier asked for
    tickIn,            \* pool check: the tick spacing passed, <<>> for None
    hooksIn,           \* pool check: the hooks address passed
    pool_out,          \* pool check: what the function applied returned
    latest_block,      \* gas oracle: what web3.eth.get_block('latest') gives
    network_gas_price, \* gas oracle: web3.eth.gas_price, in wei
    max_gas_price_gwei,\* gas oracle: config.max_gas_price_gwei, in tenths of a gwei
    gas_out,           \* gas oracle: what get_optimal_gas_price returned
    liquidity,         \* discovery: candidate -> what its liquidity probe gives now
    pools,             \* discovery: fee tier index -> what the V4 pool lookup gives
    disc,              \* discovery: MultiDEXRouter.best_dex, best_fee and the probes made
    v4_found,          \* discovery: what _find_v4_pool returned and the probes made
    last_swap,         \* discovery: the venue the last MultiDEXRouter swap traded on
    request,           \* request check: the swap a caller asks a router for
    call,              \* request check: attempts made, transactions sent and how the call ended
    swarm_dry_run,     \* swarm: config.dry_run of the swarm manager and of its traders
    swarm_wallets,     \* swarm: wallet index -> balances on chain and SwarmWallet.is_active
    swarm_txs,         \* swarm: the transactions signed by swarm operations
    key_file,          \* swarm: the encrypted wallet file, "present" or "archived"
    swarm_ops,         \* swarm: the operations called so far and how each ended
    rotation,          \* rotation: the wallets of a SecureSwarmManager, its _current_index and the last call
    loop,              \* main loop: the counters of VolumeBot.run and what its last pass did
    key_clock,         \* key manager: datetime.now(), in units of ten minutes
    rate_limit,        \* key manager: the RateLimitEntry of the key file, <<>> when none is stored
    key_calls          \* key manager: the load_and_decrypt calls made and what the last one did

slipVars == <<expected_out, slip_lo, slip_hi, min_lo, min_hi>>

configVars == <<use_zerox, use_oneinch, max_retries, best_dex, dry_run, prior_allowance>>

botVars == <<op, pc, route_log, op_result, buy_count, successful_buys, failed_buys>>

v4Vars == <<attempt_number, v4_attempts, total_swaps, successful_swaps>>

chainVars == <<chain_nonce, pending, mined, sent, now>>

poolVars == <<tokenA, tokenB, feeIn, tickIn, hooksIn, pool_out>>

gasVars == <<latest_block, network_gas_price, max_gas_price_gwei, gas_out>>

\* the variables of the engine and of the minimum-output check
mainVars == <<slipVars, configVars, botVars, v4Vars, chainVars>>

discVars == <<liquidity, pools, disc, v4_found, last_swap>>

reqVars == <<request, call>>

swarmVars == <<swarm_dry_run, swarm_wallets, swarm_txs, key_file, swarm_ops>>

rotVars == <<rotation>>

loopVars == <<loop>>

keyVars == <<key_clock, rate_limit, key_calls>>

\* the variables of the checks of single components
sideVars == <<poolVars, gasVars, discVars, reqVars, swarmVars, rotVars, loopVars, keyVars>>

\* what a step of one component check leaves alone
notPoolVars == <<mainVars, gasVars, discVars, reqVars, swarmVars, rotVars, loopVars, keyVars>>

notGasVars == <<mainVars, poolVars, discVars, reqVars, swarmVars, rotVars, loopVars, keyVars>>

notDiscVars == <<mainVars, poolVars, gasVars, reqVars, swarmVars, rotVars, loopVars, keyVars>>

notReqVars == <<mainVars, poolVars, gasVars, discVars, swarmVars, rotVars, loopVars, keyVars>>

notSwarmVars == <<mainVars, poolVars, gasVars, discVars, reqVars, rotVars, loopVars, keyVars>>

notRotVars == <<mainVars, poolVars, gasVars, discVars, reqVars, swarmVars, loopVars, keyVars>>

notLoopVars == <<mainVars, poolVars, gasVars, discVars, reqVars, swarmVars, rotVars, keyVars>>

notKeyVars == <<mainVars, poolVars, gasVars, discVars, reqVars, swarmVars, rotVars, loopVars>>

vars == <<mainVars, sideVars>>

NoValue == "none"

(***************************************************************************)
(* The minimum-output functions applied to drawn inputs.                   *)
(***************************************************************************)
Implementations == {"v4_router", "trader", "quoter"}

\* expected outputs: small amounts, the documented example, amounts beyond
\* 2^53 (not exact as a double) and beyond 28 decimal digits
ExpectedOutputs ==
    { Big(0), Big(1000), Big(1000000),
      BigAdd(BigShl(Big(1), 53), Big(1)),
      BigAdd(BigPow10(18), Big(3)),
      BigAdd(BigPow10(28), Big(1)) }

\* tolerances in basis points, 0% .. 100%
SlippageBps == {0, 1, 10, 200, 5000, 10000}

MinOutputOf(impl, expected, bps) ==
    CASE impl = "v4_router" -> V4Router_calculate_min_amount_out(expected, PercentOf(bps))
      [] impl = "trader"    -> Trader_calculate_min_amount_out(expected, PercentOf(bps))
      [] impl = "quoter"    -> calculate_min_output(expected, PercentOf(bps))

\* the engine right after construction, with default configuration
EngineIdle ==
    /\ use_zerox = FALSE
    /\ use_oneinch = FALSE
    /\ max_retries = 3
    /\ best_dex = NoValue
    /\ dry_run = FALSE
    /\ prior_allowance = <<>>
    /\ op = "none"
    /\ pc = "idle"
    /\ route_log = <<>>
    /\ op_result = NoValue
    /\ attempt_number = 0
    /\ v4_attempts = <<>>
    /\ total_swaps = 0
    /\ successful_swaps = 0
    /\ buy_count = 0
    /\ successful_buys = 0
    /\ failed_buys = 0
    /\ chain_nonce = 0
    /\ pending = {}
    /\ mined = <<>>
    /\ sent = <<>>
    /\ now = 0

\* no minimum output computed and no engine operation begun
MainIdle ==
    /\ expected_out = <<>>
    /\ slip_lo = 0
    /\ slip_hi = 0
    /\ min_lo = [i \in Implementations |-> NoValue]
    /\ min_hi = [i \in Implementations |-> NoValue]
    /\ EngineIdle

PoolIdle ==
    /\ tokenA = <<>>
    /\ tokenB = <<>>
    /\ feeIn = 0
    /\ tickIn = <<>>
    /\ hooksIn = <<>>
    /\ pool_out = [fn |-> NoValue]

GasIdle ==
    /\ latest_block = [read |-> FALSE]
    /\ network_gas_price = <<>>
    /\ max_gas_price_gwei = 50
    /\ gas_out = [returned |-> FALSE]

DiscIdle ==
    /\ liquidity = <<>>
    /\ pools = <<>>
    /\ disc = [constructed |-> FALSE]
    /\ v4_found = [called |-> FALSE]
    /\ last_swap = [called |-> FALSE]

ReqIdle ==
    /\ request = [fn |-> NoValue]
    /\ call = [state |-> "idle"]

SwarmIdle ==
    /\ swarm_dry_run = FALSE
    /\ swarm_wallets = <<>>
    /\ swarm_txs = {}
    /\ key_file = "present"
    /\ swarm_ops = <<>>

RotIdle ==
    /\ rotation = <<>>

LoopIdle ==
    /\ loop = <<>>

KeyIdle ==
    /\ key_clock = 0
    /\ rate_limit = <<>>
    /\ key_calls = <<>>

InitSlippage ==
    /\ expected_out \in ExpectedOutputs
    /\ slip_lo \in SlippageBps
    /\ slip_hi \in {b \in SlippageBps : b >= slip_lo}
    /\ min_lo = [i \in Implementations |-> NoValue]
    /\ min_hi = [i \in Implementations |-> NoValue]
    /\ EngineIdle
    /\ PoolIdle
    /\ GasIdle
    /\ DiscIdle
    /\ ReqIdle
    /\ SwarmIdle
    /\ RotIdle
    /\ LoopIdle
    /\ KeyIdle

CalcMinOut(impl) ==
    /\ min_lo[impl] = NoValue
    /\ min_lo' = [min_lo EXCEPT ![impl] = MinOutputOf(impl, expected_out, slip_lo)]
    /\ min_hi' = [min_hi EXCEPT ![impl] = MinOutputOf(impl, expected_out, slip_hi)]
    /\ UNCHANGED <<expected_out, slip_lo, slip_hi>>
    /\ UNCHANGED <<configVars, botVars, v4Vars, chainVars, sideVars>>

V4RouterCalcMinOut == CalcMinOut("v4_router")

TraderCalcMinOut == CalcMinOut("trader")

QuoterCalcMinOut == CalcMinOut("quoter")

NextSlippage == V4RouterCalcMinOut \/ TraderCalcMinOut \/ QuoterCalcMinOut

SpecSlippage == InitSlippage /\ [][NextSlippage]_vars

(***************************************************************************)
(* Pool keys of the singleton pool manager.  An address is the sequence of *)
(* the character codes of its 40 hexadecimal digits, in the letter case it *)
(* was written in (the "0x" prefix is left out: it is the same for all).   *)
(***************************************************************************)
\* 0x0000000000000000000000000000000000000001
ADDR_ONE ==
    <<48, 48, 48, 48, 48, 48, 48, 48, 48, 48, 48, 48, 48, 48, 48, 48, 48, 48,
     48, 48, 48, 48, 48, 48, 48, 48, 48, 48, 48, 48, 48, 48, 48, 48, 48, 48,
     48, 48, 48, 49>>

\* 0xFFfFfFffFFfffFFfFFfFFFFFffFFFffffFfFFFfF
ADDR_MAX ==
    <<70, 70, 102, 70, 102, 70, 102, 102, 70, 70, 102, 102, 102, 70, 70, 102,
     70, 70, 102, 70, 70, 70, 70, 70, 102, 102, 70, 70, 70, 102, 102, 102,
     102, 70, 102, 70, 70, 70, 102, 70>>

\* 0x4200000000000000000000000000000000000006
WETH ==
    <<52, 50, 48, 48, 48, 48, 48, 48, 48, 48, 48, 48, 48, 48, 48, 48, 48, 48,
     48, 48, 48, 48, 48, 48, 48, 48, 48, 48, 48, 48, 48, 48, 48, 48, 48, 48,
     48, 48, 48, 54>>

\* 0x696381f39F17cAD67032f5f52A4924ce84e51BA3
COMPUTE ==
    <<54, 57, 54, 51, 56, 49, 102, 51, 57, 70, 49, 55, 99, 65, 68, 54, 55,
     48, 51, 50, 102, 53, 102, 53, 50, 65, 52, 57, 50, 52, 99, 101, 56, 52,
     101, 53, 49, 66, 65, 51>>

\* 0x833589fCD6eDb6E08f4c7C32D4f71b54bdA02913
USDC ==
    <<56, 51, 51, 53, 56, 57, 102, 67, 68, 54, 101, 68, 98, 54, 69, 48, 56,
     102, 52, 99, 55, 67, 51, 50, 68, 52, 102, 55, 49, 98, 53, 52, 98, 100,
     65, 48, 50, 57, 49, 51>>

\* 0x420000000000000000000000000000000000000A
ADDR_42A ==
    <<52, 50, 48, 48, 48, 48, 48, 48, 48, 48, 48, 48, 48, 48, 48, 48, 48, 48,
     48, 48, 48, 48, 48, 48, 48, 48, 48, 48, 48, 48, 48, 48, 48, 48, 48, 48,
     48, 48, 48, 65>>

\* 0x000000000000000000000000000000000000000b
ADDR_0B ==
    <<48, 48, 48, 48, 48, 48, 48, 48, 48, 48, 48, 48, 48, 48, 48, 48, 48, 48,
     48, 48, 48, 48, 48, 48, 48, 48, 48, 48, 48, 48, 48, 48, 48, 48, 48, 48,
     48, 48, 48, 98>>

\* 0x000000000000000000000000000000000000000C
ADDR_0C ==
    <<48, 48, 48, 48, 48, 48, 48, 48, 48, 48, 48, 48, 48, 48, 48, 48, 48, 48,
     48, 48, 48, 48, 48, 48, 48, 48, 48, 48, 48, 48, 48, 48, 48, 48, 48, 48,
     48, 48, 48, 67>>

\* 0x0000000000000000000000000000000000000000
NO_HOOKS ==
    <<48, 48, 48, 48, 48, 48, 48, 48, 48, 48, 48, 48, 48, 48, 48, 48, 48, 48,
     48, 48, 48, 48, 48, 48, 48, 48, 48, 48, 48, 48, 48, 48, 48, 48, 48, 48,
     48, 48, 48, 48>>

\* 0x1234567890123456789012345678901234567890
SOME_HOOK ==
    <<49, 50, 51, 52, 53, 54, 55, 56, 57, 48, 49, 50, 51, 52, 53, 54, 55, 56,
     57, 48, 49, 50, 51, 52, 53, 54, 55, 56, 57, 48, 49, 50, 51, 52, 53, 54,
     55, 56, 57, 48>>

\* the addresses the pool functions are exercised on
KnownAddresses ==
    {ADDR_ONE, ADDR_MAX, WETH, COMPUTE, USDC, ADDR_42A, ADDR_0B, ADDR_0C, NO_HOOKS, SOME_HOOK}

IsUpperHex(ch) == ch \in 65..70

IsLowerHex(ch) == ch \in 97..102

\* str.lower()
lower(s) == [i \in 1..Len(s) |-> IF IsUpperHex(s[i]) THEN s[i] + 32 ELSE s[i]]

\* str.upper()
upper(s) == [i \in 1..Len(s) |-> IF IsLowerHex(s[i]) THEN s[i] - 32 ELSE s[i]]

\* the token addresses as callers spell them: EIP-55, lower case, upper case
InputAddresses ==
    {ADDR_ONE, ADDR_MAX, WETH, COMPUTE, USDC, ADDR_42A, ADDR_0B, ADDR_0C,
     lower(COMPUTE), upper(ADDR_0B)}

\* every spelling of an address the model handles
Spellings == KnownAddresses \union InputAddresses

\* the function over S with value F(x) at x, computed once
RECURSIVE Tabulate(_, _)
Tabulate(S, F) ==
    IF S = {} THEN <<>>
    ELSE LET x == CHOOSE y \in S : TRUE
         IN (x :> F[x]) @@ Tabulate(S \ {x}, F)

\* Web3.to_checksum_address: the EIP-55 spelling of the address, whatever
\* the letter case it is given in (the casing is fixed by the keccak hash of
\* the lower-case spelling, here looked up among the known addresses)
ChecksumAddresses == Tabulate(Spellings,
    [s \in Spellings |-> CHOOSE a \in KnownAddresses : lower(a) = lower(s)])

to_checksum_address(s) == ChecksumAddresses[s]

\* value of one hexadecimal digit
HexValue(ch) ==
    IF ch \in 48..57 THEN ch - 48
    ELSE IF IsUpperHex(ch) THEN ch - 55 ELSE ch - 87

\* int(s, 16)
RECURSIVE IntFromHex(_, _, _)
IntFromHex(s, i, acc) ==
    IF i > Len(s) THEN acc
    ELSE LET v == BigAdd(BigMulSmall(acc, 16), Big(HexValue(s[i])))
         IN IF Len(v) >= 0 THEN IntFromHex(s, i + 1, v) ELSE acc

HexIntegers == Tabulate(Spellings, [s \in Spellings |-> IntFromHex(s, 1, <<>>)])

int16(s) == HexIntegers[s]

\* s < t on Python strings: code point order, a proper prefix is smaller
RECURSIVE StrLessFrom(_, _, _)
StrLessFrom(s, t, i) ==
    IF i > Len(t) THEN FALSE
    ELSE IF i > Len(s) THEN TRUE
    ELSE IF s[i] # t[i] THEN s[i] < t[i]
    ELSE StrLessFrom(s, t, i + 1)

StrLess(s, t) == StrLessFrom(s, t, 1)

\* sorted([s, t])
sorted(s, t) == IF StrLess(t, s) THEN <<t, s>> ELSE <<s, t>>

\* the table with no entry for the 1% tier and a default of 1
FEE_TO_TICK_SPACING_default_one(fee) ==
    CASE fee = 100 -> 1
      [] fee = 500 -> 10
      [] fee = 3000 -> 60
      [] OTHER -> 1

\* FEE_TO_TICK_SPACING.get(fee, 60)
FEE_TO_TICK_SPACING(fee) ==
    CASE fee = 100 -> 1
      [] fee = 500 -> 10
      [] fee = 3000 -> 60
      [] fee = 10000 -> 200
      [] OTHER -> 60

\* V4PoolManager.get_pool_tick_spacing
get_pool_tick_spacing(fee) == FEE_TO_TICK_SPACING(fee)

\* an encoding that leaves the hooks word empty
encode_pool_key_without_hooks(token0, token1, fee, spacing, hook) ==
    <<int16(token0), int16(token1), fee, spacing, <<>>>>

\* eth_abi encode(['address', 'address', 'uint24', 'int24', 'address'], ...):
\* five 32-byte words, each holding the value of its argument
encode_pool_key(token0, token1, fee, spacing, hook) ==
    <<int16(token0), int16(token1), fee, spacing, int16(hook)>>

\* w3.keccak(encoded).hex(): the hash is taken to be collision free, an
\* identifier stands for the bytes it was derived from
keccak(encoded) == [keccak256 |-> encoded]

\* the derivation with the tokens taken in the order given
get_pool_id_unsorted(token0, token1, fee, tick_spacing, hooks) ==
    LET spacing == IF tick_spacing = <<>> THEN FEE_TO_TICK_SPACING(fee) ELSE tick_spacing[1]
    IN keccak(encode_pool_key(to_checksum_address(token0), to_checksum_address(token1),
                              fee, spacing, to_checksum_address(hooks)))

\* V4PoolManager.get_pool_id; the tick spacing is <<>> for None and <<n>>
\* for the integer n
get_pool_id(token0, token1, fee, tick_spacing, hooks) ==
    LET t0 == to_checksum_address(token0)
        t1 == to_checksum_address(token1)
        swapped == BigLt(int16(t1), int16(t0))
        spacing == IF tick_spacing = <<>> THEN FEE_TO_TICK_SPACING(fee) ELSE tick_spacing[1]
    IN keccak(encode_pool_key(IF swapped THEN t1 ELSE t0, IF swapped THEN t0 ELSE t1,
                              fee, spacing, to_checksum_address(hooks)))

\* tick_spacing: int = 60, the default of V4Encoder._compute_pool_id
DefaultTickSpacing == 60

\* V4Encoder._compute_pool_id; the tick spacing is <<>> when the argument
\* is omitted
compute_pool_id(token0, token1, fee, tick_spacing, hooks) ==
    LET t0 == to_checksum_address(token0)
        t1 == to_checksum_address(token1)
        swapped == BigLt(int16(t1), int16(t0))
        spacing == IF tick_spacing = <<>> THEN DefaultTickSpacing ELSE tick_spacing[1]
    IN keccak(encode_pool_key(IF swapped THEN t1 ELSE t0, IF swapped THEN t0 ELSE t1,
                              fee, spacing, to_checksum_address(hooks)))

\* the comparison turned round: true when the input token is the larger
is_zero_for_one_reversed(token_in, token_out) ==
    BigLt(int16(to_checksum_address(token_out)), int16(to_checksum_address(token_in)))

\* V4Encoder._is_zero_for_one
is_zero_for_one(token_in, token_out) ==
    BigLt(int16(to_checksum_address(token_in)), int16(to_checksum_address(token_out)))

\* the pool with the tokens taken in the order given
find_v4_pool_unsorted(token_in, token_out, fee) ==
    [currency0 |-> to_checksum_address(token_in), currency1 |-> to_checksum_address(token_out),
     fee |-> fee, tickSpacing |-> FEE_TO_TICK_SPACING(fee), hooks |-> NO_HOOKS,
     zeroForOne |-> TRUE]

\* the pool V4UniversalRouter._find_v4_pool returns when the pool manager
\* knows a pool of the pair at fee tier fee
find_v4_pool(token_in, token_out, fee) ==
    LET token_in_cs == to_checksum_address(token_in)
        token_out_cs == to_checksum_address(token_out)
        pair == sorted(token_in_cs, token_out_cs)
    IN [currency0 |-> pair[1], currency1 |-> pair[2], fee |-> fee,
        tickSpacing |-> FEE_TO_TICK_SPACING(fee), hooks |-> NO_HOOKS,
        zeroForOne |-> token_in_cs = pair[1]]

\* fee tiers asked for: the four standard ones and an unknown one
FeeTiers == {100, 500, 3000, 10000, 99999}

\* the field of the pool key a second derivation changes
AlteredFields == {"none", "fee", "tickSpacing", "hooks"}

AltFee(fee) == IF fee = 3000 THEN 500 ELSE 3000

AltTick(fee, tick_spacing) ==
    LET spacing == IF tick_spacing = <<>> THEN FEE_TO_TICK_SPACING(fee) ELSE tick_spacing[1]
    IN IF spacing = 60 THEN <<10>> ELSE <<60>>

AltHooks(hooks) == IF lower(hooks) = lower(NO_HOOKS) THEN SOME_HOOK ELSE NO_HOOKS

InitPool ==
    /\ tokenA \in InputAddresses
    /\ tokenB \in InputAddresses
    /\ feeIn \in FeeTiers
    /\ tickIn \in {<<>>, <<10>>}
    /\ hooksIn \in {NO_HOOKS, SOME_HOOK}
    /\ pool_out = [fn |-> NoValue]
    /\ MainIdle
    /\ GasIdle
    /\ DiscIdle
    /\ ReqIdle
    /\ SwarmIdle
    /\ RotIdle
    /\ LoopIdle
    /\ KeyIdle

\* the pool key as given, with the field named by alt changed
AlteredKey(alt) ==
    [fee |-> IF alt = "fee" THEN AltFee(feeIn) ELSE feeIn,
     tick_spacing |-> IF alt = "tickSpacing" THEN AltTick(feeIn, tickIn)
                      ELSE IF alt = "fee" /\ tickIn = <<>>
                      THEN <<FEE_TO_TICK_SPACING(feeIn)>> ELSE tickIn,
     hooks |-> IF alt = "hooks" THEN AltHooks(hooksIn) ELSE hooksIn]

PoolReturns(result) ==
    /\ pool_out.fn = NoValue
    /\ pool_out' = result
    /\ UNCHANGED <<tokenA, tokenB, feeIn, tickIn, hooksIn>>
    /\ UNCHANGED notPoolVars

\* V4PoolManager.get_pool_id on (A, B), on (B, A) and on (A, B) with one
\* field of the key changed
GetPoolId(alt) ==
    PoolReturns([fn |-> "get_pool_id", altered |-> alt,
                 id_ab |-> get_pool_id(tokenA, tokenB, feeIn, tickIn, hooksIn),
                 id_ba |-> get_pool_id(tokenB, tokenA, feeIn, tickIn, hooksIn),
                 id_alt |-> get_pool_id(tokenA, tokenB, AlteredKey(alt).fee,
                                        AlteredKey(alt).tick_spacing, AlteredKey(alt).hooks)])

\* V4Encoder._compute_pool_id, likewise
ComputePoolId(alt) ==
    PoolReturns([fn |-> "_compute_pool_id", altered |-> alt,
                 id_ab |-> compute_pool_id(tokenA, tokenB, feeIn, tickIn, hooksIn),
                 id_ba |-> compute_pool_id(tokenB, tokenA, feeIn, tickIn, hooksIn),
                 id_alt |-> compute_pool_id(tokenA, tokenB, AlteredKey(alt).fee,
                                            AlteredKey(alt).tick_spacing, AlteredKey(alt).hooks)])

\* V4Encoder._is_zero_for_one for the swap A -> B, next to the pool
\* identifier V4Encoder._compute_pool_id derives for the same swap
IsZeroForOne ==
    PoolReturns([fn |-> "_is_zero_for_one",
                 zero_for_one |-> is_zero_for_one(tokenA, tokenB),
                 pool_id |-> compute_pool_id(tokenA, tokenB, feeIn, tickIn, hooksIn)])

\* the two calls of V4UniversalRouter._find_v4_pool: a buy of token A looks
\* up (weth, A), a sale of it (A, weth)
SwapSides == {"buy", "sell"}

FindV4Pool(side) ==
    PoolReturns([fn |-> "_find_v4_pool", side |-> side,
                 pool |-> IF side = "buy" THEN find_v4_pool(WETH, tokenA, feeIn)
                          ELSE find_v4_pool(tokenA, WETH, feeIn)])

\* the pool key of the dry-run buy in VolumeBot.execute_buy
dry_run_pool_key ==
    LET weth == WETH
        compute == COMPUTE
    IN IF StrLess(lower(weth), lower(compute))
       THEN [currency0 |-> weth, currency1 |-> compute, fee |-> 500, tickSpacing |-> 10,
             hooks |-> NO_HOOKS, zeroForOne |-> TRUE]
       ELSE [currency0 |-> compute, currency1 |-> weth, fee |-> 500, tickSpacing |-> 10,
             hooks |-> NO_HOOKS, zeroForOne |-> FALSE]

DryRunPoolKey ==
    PoolReturns([fn |-> "dry_run", pool |-> dry_run_pool_key])

\* V4Encoder.encode_v4_swap for the swap A -> B called with pool_id None:
\* the first two fields of its payload, next to the identifier
\* V4PoolManager.get_pool_id derives for the same pair and fee
EncodeV4Swap ==
    PoolReturns([fn |-> "encode_v4_swap",
                 payload |-> [pool_id |-> compute_pool_id(tokenA, tokenB, feeIn, <<>>, NO_HOOKS),
                              zero_for_one |-> is_zero_for_one(tokenA, tokenB)],
                 manager_pool_id |-> get_pool_id(tokenA, tokenB, feeIn, <<>>, NO_HOOKS)])

\* V4PoolManager.get_pool_tick_spacing
GetPoolTickSpacing ==
    PoolReturns([fn |-> "get_pool_tick_spacing", tick_spacing |-> get_pool_tick_spacing(feeIn)])

NextPool ==
    \/ \E alt \in AlteredFields : GetPoolId(alt)
    \/ \E alt \in AlteredFields : ComputePoolId(alt)
    \/ IsZeroForOne
    \/ \E side \in SwapSides : FindV4Pool(side)
    \/ DryRunPoolKey
    \/ GetPoolTickSpacing
    \/ EncodeV4Swap

SpecPool == InitPool /\ [][NextPool]_vars

(***************************************************************************)
(* The gas oracle, GasOptimizer.get_optimal_gas_price, applied to drawn    *)
(* node answers.  Amounts are in wei.                                      *)
(***************************************************************************)

\* web3.to_wei(x, 'gwei'), for x given in tenths of a gwei
to_wei_gwei(tenths) == BigMulSmall(BigPow10(8), tenths)

\* the default priority fee of 1.5 gwei, in tenths of a gwei
PriorityFeeTenths == 15

\* min(a, b)
BigMin(a, b) == IF BigLt(b, a) THEN b ELSE a

\* what get_block('latest') can give: an error, a block without base fee,
\* a block with one
NoBlock == [read |-> FALSE, has_base_fee |-> FALSE, baseFeePerGas |-> <<>>]

LegacyBlock == [read |-> TRUE, has_base_fee |-> FALSE, baseFeePerGas |-> <<>>]

\* base fees: 0, 7 wei, 1 gwei, 1.75 gwei (2 x 1.75 + 1.5 is the default
\* ceiling), 3 gwei
BaseFees ==
    {Big(0), Big(7), BigPow10(9), BigMulSmall(BigPow10(7), 175), BigMulSmall(BigPow10(9), 3)}

LatestBlocks ==
    {NoBlock, LegacyBlock}
        \cup {[read |-> TRUE, has_base_fee |-> TRUE, baseFeePerGas |-> b] : b \in BaseFees}

\* web3.eth.gas_price: 0.001, 5 and 6 gwei
NetworkGasPrices == {Big(1000000), BigMulSmall(BigPow10(9), 5), BigMulSmall(BigPow10(9), 6)}

\* config.max_gas_price_gwei: 0.1, 5.0 (the default) and 100.0
MaxGasPrices == {1, 50, 1000}

\* GasOptimizer.get_optimal_gas_price when it returns: the try block, and
\* the except branch taken when the block cannot be read
get_optimal_gas_price(block, gas_price, max_gwei) ==
    IF ~block.read THEN gas_price
    ELSE IF block.has_base_fee
    THEN LET base_fee == block.baseFeePerGas
             priority_fee == to_wei_gwei(PriorityFeeTenths)
             max_fee == BigAdd(BigMulSmall(base_fee, 2), priority_fee)
             max_allowed == to_wei_gwei(max_gwei)
         IN BigMin(max_fee, max_allowed)
    ELSE LET max_allowed == to_wei_gwei(max_gwei)
         IN BigMin(gas_price, max_allowed)

InitGas ==
    /\ latest_block \in LatestBlocks
    /\ network_gas_price \in NetworkGasPrices
    /\ max_gas_price_gwei \in MaxGasPrices
    /\ gas_out = [returned |-> FALSE]
    /\ MainIdle
    /\ PoolIdle
    /\ DiscIdle
    /\ ReqIdle
    /\ SwarmIdle
    /\ RotIdle
    /\ LoopIdle
    /\ KeyIdle

\* one call of GasOptimizer.get_optimal_gas_price; node_answers tells
\* whether the read of web3.eth.gas_price in the except branch succeeds
GetOptimalGasPrice(node_answers) ==
    /\ ~gas_out.returned
    /\ "raised" \notin DOMAIN gas_out
    /\ gas_out' = IF ~latest_block.read /\ ~node_answers
                  THEN [returned |-> FALSE, raised |-> TRUE]
                  ELSE [returned |-> TRUE,
                        fee |-> get_optimal_gas_price(latest_block, network_gas_price,
                                                      max_gas_price_gwei)]
    /\ UNCHANGED <<latest_block, network_gas_price, max_gas_price_gwei>>
    /\ UNCHANGED notGasVars

NextGas == \E node_answers \in BOOLEAN : GetOptimalGasPrice(node_answers)

SpecGas == InitGas /\ [][NextGas]_vars

(***************************************************************************)
(* Venue discovery: MultiDEXRouter._find_best_dex, run by the constructor, *)
(* the swaps that use its result, and the pool lookup of                   *)
(* V4UniversalRouter._find_v4_pool.                                        *)
(***************************************************************************)

\* the liquidity probes of _find_best_dex, in the order the code makes them
DiscoveryOrder ==
    <<[venue |-> "uniswap_v3", fee |-> 100], [venue |-> "uniswap_v3", fee |-> 500],
      [venue |-> "uniswap_v3", fee |-> 3000], [venue |-> "uniswap_v3", fee |-> 10000],
      [venue |-> "uniswap_v4", fee |-> 0],
      [venue |-> "uniswap_v2", fee |-> 0],
      [venue |-> "baseswap", fee |-> 0]>>

\* a view call that reverted or timed out
ProbeFailed == [ok |-> FALSE, amount |-> 0]

\* pool.liquidity() of a V3 pool: the call fails, no pool or no liquidity,
\* or some liquidity
V3ProbeResults ==
    {ProbeFailed, [ok |-> TRUE, amount |-> 0], [ok |-> TRUE, amount |-> 5],
     [ok |-> TRUE, amount |-> 9]}

\* len(get_code(router)) for V4, getAmountsOut(...)[-1] for the V2 routers
OtherProbeResults == {ProbeFailed, [ok |-> TRUE, amount |-> 0], [ok |-> TRUE, amount |-> 5]}

\* what the chain can answer to the probes of _find_best_dex
LiquidityStates ==
    {l \in [1..Len(DiscoveryOrder) -> V3ProbeResults] :
        \A i \in 1..Len(DiscoveryOrder) :
            DiscoveryOrder[i].venue # "uniswap_v3" => l[i] \in OtherProbeResults}

\* the blocks that change the liquidity after the router was constructed
MaxBlocks == 1

\* the liquidity a later block can leave at a venue
MovedLiquidity == {[ok |-> TRUE, amount |-> 0], [ok |-> TRUE, amount |-> 5]}

\* a failed probe ends the iteration
NextAfterError_gives_up(i) == Len(DiscoveryOrder) + 1

\* except: continue -- the candidate probed after candidate i failed
NextAfterError(i) == i + 1

\* _find_best_dex from candidate i on: the V3 tiers are all probed and the
\* one with the most liquidity kept; a later venue is probed only while
\* best_dex is None
RECURSIVE FindBestDexFrom(_, _, _)
FindBestDexFrom(liq, i, acc) ==
    IF i > Len(DiscoveryOrder) THEN acc
    ELSE LET cand == DiscoveryOrder[i]
             logged == Append(acc.log, [venue |-> cand.venue, fee |-> cand.fee,
                                        ok |-> liq[i].ok])
         IN IF cand.venue # "uniswap_v3" /\ acc.best_dex # NoValue
            THEN FindBestDexFrom(liq, i + 1, acc)
            ELSE IF ~liq[i].ok
            THEN FindBestDexFrom(liq, NextAfterError(i), [acc EXCEPT !.log = logged])
            ELSE IF liq[i].amount > acc.best_liquidity
            THEN FindBestDexFrom(liq, i + 1,
                     [best_dex |-> cand.venue,
                      best_fee |-> IF cand.venue = "uniswap_v3" THEN cand.fee ELSE acc.best_fee,
                      best_liquidity |-> liq[i].amount,
                      log |-> logged])
            ELSE FindBestDexFrom(liq, i + 1, [acc EXCEPT !.log = logged])

\* MultiDEXRouter._find_best_dex
find_best_dex(liq) ==
    FindBestDexFrom(liq, 1, [best_dex |-> NoValue, best_fee |-> 0, best_liquidity |-> 0,
                             log |-> <<>>])

\* fee_tiers of V4UniversalRouter._find_v4_pool
V4FeeTiers == <<100, 500, 3000, 10000>>

\* getPool and get_code of a V4 pool: the call fails, no pool, a pool
PoolProbeResults == {ProbeFailed, [ok |-> TRUE, amount |-> 0], [ok |-> TRUE, amount |-> 1]}

\* the loop of V4UniversalRouter._find_v4_pool from fee tier i on; fee 0
\* stands for the result None
RECURSIVE FindV4PoolFrom(_, _, _)
FindV4PoolFrom(pl, i, log) ==
    IF i > Len(V4FeeTiers) THEN [called |-> TRUE, fee |-> 0, log |-> log]
    ELSE LET logged == Append(log, [fee |-> V4FeeTiers[i], ok |-> pl[i].ok])
         IN IF ~pl[i].ok THEN FindV4PoolFrom(pl, NextAfterError(i), logged)
            ELSE IF pl[i].amount > 0
            THEN [called |-> TRUE, fee |-> V4FeeTiers[i], log |-> logged]
            ELSE FindV4PoolFrom(pl, i + 1, logged)

InitDisc ==
    /\ \/ liquidity \in LiquidityStates /\ pools = <<>>
       \/ liquidity = <<>> /\ pools \in [1..Len(V4FeeTiers) -> PoolProbeResults]
    /\ disc = [constructed |-> FALSE]
    /\ v4_found = [called |-> FALSE]
    /\ last_swap = [called |-> FALSE]
    /\ MainIdle
    /\ PoolIdle
    /\ GasIdle
    /\ ReqIdle
    /\ SwarmIdle
    /\ RotIdle
    /\ LoopIdle
    /\ KeyIdle

\* MultiDEXRouter.__init__: discovery runs once, at construction
ConstructRouter ==
    /\ liquidity # <<>>
    /\ ~disc.constructed
    /\ disc' = [constructed |-> TRUE,
                best_dex |-> find_best_dex(liquidity).best_dex,
                best_fee |-> find_best_dex(liquidity).best_fee,
                log |-> find_best_dex(liquidity).log,
                blocks |-> 0]
    /\ UNCHANGED <<liquidity, pools, v4_found, last_swap>>
    /\ UNCHANGED notDiscVars

\* a new block: the liquidity at candidate i is no longer what it was
LiquidityMoves(i, r) ==
    /\ disc.constructed
    /\ disc.blocks < MaxBlocks
    /\ liquidity[i] # r
    /\ liquidity' = [liquidity EXCEPT ![i] = r]
    /\ disc' = [disc EXCEPT !.blocks = @ + 1]
    /\ UNCHANGED <<pools, v4_found, last_swap>>
    /\ UNCHANGED notDiscVars

\* MultiDEXRouter.swap_eth_for_tokens up to the choice of the router: the
\* venue is self.best_dex; chosen_now is what discovery would choose on the
\* liquidity of the current block
SwapOnBestDex ==
    /\ disc.constructed
    /\ last_swap' = [called |-> TRUE,
                     traded |-> disc.best_dex # NoValue,
                     venue |-> disc.best_dex, fee |-> disc.best_fee,
                     chosen_now |-> find_best_dex(liquidity).best_dex,
                     chosen_fee_now |-> find_best_dex(liquidity).best_fee]
    /\ UNCHANGED <<liquidity, pools, disc, v4_found>>
    /\ UNCHANGED notDiscVars

\* V4UniversalRouter._find_v4_pool
ProbeV4Pools ==
    /\ pools # <<>>
    /\ ~v4_found.called
    /\ v4_found' = FindV4PoolFrom(pools, 1, <<>>)
    /\ UNCHANGED <<liquidity, pools, disc, last_swap>>
    /\ UNCHANGED notDiscVars

NextDisc ==
    \/ ConstructRouter
    \/ \E i \in 1..Len(DiscoveryOrder), r \in MovedLiquidity : LiquidityMoves(i, r)
    \/ SwapOnBestDex
    \/ ProbeV4Pools

SpecDisc == InitDisc /\ [][NextDisc]_vars

(***************************************************************************)
(* The engine: VolumeBot.execute_buy over the route chain                  *)
(* 0x -> 1inch -> multi-DEX -> V4 Universal Router, one engine invocation  *)
(* per behaviour.  Every router call is one step; what the node, the       *)
(* quoter and the aggregator APIs answer is drawn from the outcomes below. *)
(***************************************************************************)
\* range of the max_retries constructor argument explored
MaxConfiguredRetries == 3

\* @retry(stop=stop_after_attempt(3), ...) on the V4 router swaps
StopAfterAttempt == 3

\* wait_exponential(multiplier=1, min=2, max=10)
WaitMultiplier == 1

WaitMin == 2

WaitMax == 10

\* wait_for_transaction_receipt(tx_hash, timeout=120)
ReceiptTimeout == 120

\* deadline_seconds: int = 300
deadline_seconds == 300

\* class Commands
WRAP_ETH == 10

V4_SWAP_EXACT_IN == 3

Commands_TAKE == 6

SETTLE == 5

SWEEP == 9

UNWRAP_WETH == 11

\* BotConfig.slippage_percent: float = 2.0
BotConfig_slippage_percent == PercentOf(200)

\* int(amount_eth * 10**18) for BotConfig.buy_amount_eth = 0.002
amount_in_wei == BigMulSmall(BigPow10(15), 2)

\* int(amount_tokens * (10 ** token_decimals)) for the balance sold
amount_in_units == BigPow10(21)

\* what MultiDEXRouter._find_best_dex can leave in best_dex
BestDexResults == {NoValue, "uniswap_v3", "uniswap_v4", "uniswap_v2", "baseswap"}

\* DEX_CONFIG[dex]["type"]
DexType(dex) ==
    CASE dex = "uniswap_v3" -> "uniswap_v3"
      [] dex = "uniswap_v4" -> "uniswap_v4"
      [] dex = "uniswap_v2" -> "uniswap_v2"
      [] dex = "baseswap"   -> "uniswap_v2"

\* answers of an on-chain quoting call: 0 (the call failed) or an amount
QuoterResults == {<<>>, Big(1000000)}

\* how one single-shot router call can end
AggregatorOutcomes == {"NoQuote", "Reverted", "TimedOut", "Confirmed"}

DirectOutcomes == {"RpcError", "Reverted", "TimedOut", "Confirmed"}

\* how the approval sent ahead of a token sale can end (its receipt status is
\* never read)
ApprovalOutcomes == {"TimedOut", "Confirmed"}

\* how one attempt of the V4 router can end
V4Outcomes == {"NoPool", "InsufficientBalance", "Reverted", "TimedOut", "Confirmed"}

\* the node accepted the signed transaction
Accepted(o) == o \in {"Reverted", "TimedOut", "Confirmed"}

MaxInt(a, b) == IF a >= b THEN a ELSE b

\* tenacity wait_exponential: seconds slept after failed attempt n
wait_exponential(n) ==
    MaxInt(MaxInt(0, WaitMin), MinInt(WaitMultiplier * Pow(2, n - 1), WaitMax))

\* the conservative estimate int(amount_in_wei * 0.995)
FallbackEstimate(amount) ==
    FloatTrunc(FloatMul(FloatFromInt(amount), FloatDivSmall(FloatFromInt(Big(995)), 1000)))

\* expected_out of an attempt for amount base units whose quoter answered q
ExpectedOut(amount, q) == IF q = <<>> THEN FallbackEstimate(amount) ELSE q

\* where expected_out of an attempt comes from: the quoter's answer, or the
\* estimate of the branch "if expected_out == 0"
QuoteSource(q) == IF q = <<>> THEN "estimate" ELSE "quoter"

\* what the router keeps about the confidence of expected_out: the value is
\* a bare int and the swap returns (success, tx_hash), so nothing
LowConfidence(q) == FALSE

\* expected_out of a V4 router buy, per quoter answer
V4ExpectedOut == Tabulate(QuoterResults, [q \in QuoterResults |-> ExpectedOut(amount_in_wei, q)])

\* min_amount_out of a V4 router buy, per quoter answer
V4MinAmountOut == Tabulate(QuoterResults, [q \in QuoterResults |->
    V4Router_calculate_min_amount_out(ExpectedOut(amount_in_wei, q), BotConfig_slippage_percent)])

\* expected_out and min_amount_out of a V4 router sell, per quoter answer
V4SellExpectedOut == Tabulate(QuoterResults, [q \in QuoterResults |-> ExpectedOut(amount_in_units, q)])

V4SellMinAmountOut == Tabulate(QuoterResults, [q \in QuoterResults |->
    V4Router_calculate_min_amount_out(ExpectedOut(amount_in_units, q), BotConfig_slippage_percent)])

\* min_out = int(expected_out * (100 - slippage_percent) / 100) in MultiDEXRouter
DexMinOut == Tabulate(QuoterResults, [q \in QuoterResults |->
    FloatTrunc(FloatDivSmall(
        FloatMul(FloatFromInt(q), FloatSub(FloatFromInt(Big(100)), BotConfig_slippage_percent)),
        100))])

\* web3.eth.gas_price while an engine call runs: 0.001 gwei and 5 gwei
EngineGasPrices == {Big(1000000), BigMulSmall(BigPow10(9), 5)}

\* BotConfig.max_gas_gwei = 0.5, in tenths of a gwei
BotConfig_max_gas_gwei == 5

\* self.w3.eth.gas_price, which every router puts in 'gasPrice' as read; an
\* aggregator takes the gas price of its quote, which is the network's
eth_gas_price == network_gas_price

Init ==
    /\ expected_out = <<>>
    /\ slip_lo = 0
    /\ slip_hi = 0
    /\ min_lo = [i \in Implementations |-> NoValue]
    /\ min_hi = [i \in Implementations |-> NoValue]
    /\ use_zerox \in BOOLEAN
    /\ use_oneinch \in BOOLEAN
    /\ max_retries \in 1..MaxConfiguredRetries
    /\ best_dex \in BestDexResults
    /\ dry_run \in BOOLEAN
    /\ prior_allowance \in {<<>>, amount_in_units}
    /\ op = "none"
    /\ pc = "idle"
    /\ route_log = <<>>
    /\ op_result = NoValue
    /\ attempt_number = 0
    /\ v4_attempts = <<>>
    /\ total_swaps = 0
    /\ successful_swaps = 0
    /\ buy_count = 0
    /\ successful_buys = 0
    /\ failed_buys = 0
    /\ chain_nonce = 0
    /\ pending = {}
    /\ mined = <<>>
    /\ sent = <<>>
    /\ now = 0
    /\ PoolIdle
    /\ LoopIdle
    /\ KeyIdle
    /\ latest_block = [read |-> FALSE]
    /\ network_gas_price \in EngineGasPrices
    /\ max_gas_price_gwei = BotConfig_max_gas_gwei
    /\ gas_out = [returned |-> FALSE]
    /\ DiscIdle
    /\ ReqIdle
    /\ SwarmIdle
    /\ RotIdle
    /\ LoopIdle
    /\ KeyIdle

\* the account's chain state as the node reports it
ChainNow == [nonce |-> chain_nonce, pending |-> pending, mined |-> mined, sent |-> sent]

\* w3.eth.get_transaction_count(address): the "latest" view
get_transaction_count(c) == c.nonce

\* w3.eth.get_transaction_count(address, 'pending'): the transactions mined
\* and those waiting in the node's pool
get_transaction_count_pending(c) ==
    c.nonce + Cardinality({c.sent[i].nonce : i \in c.pending})

\* send_raw_transaction followed by wait_for_transaction_receipt: a rejected
\* transaction leaves the chain as it was; an accepted one replaces a pending
\* transaction of the same nonce and is mined with status 1 or 0, or is
\* still pending when the wait times out
Send(c, tx, o) ==
    LET id   == Len(c.sent) + 1
        same == {i \in c.pending : c.sent[i].nonce = tx.nonce}
    IN IF ~Accepted(o) THEN c
       ELSE IF o = "TimedOut"
       THEN [c EXCEPT !.sent = Append(@, tx), !.pending = (@ \ same) \cup {id}]
       ELSE [c EXCEPT !.sent = Append(@, tx), !.pending = @ \ same,
                      !.nonce = @ + 1,
                      !.mined = (id :> (IF o = "Confirmed" THEN 1 ELSE 0)) @@ @]

\* index in sent of the transaction a Send from chain state c creates
TxId(c, o) == IF Accepted(o) THEN Len(c.sent) + 1 ELSE 0

Commit(c) ==
    /\ chain_nonce' = c.nonce
    /\ pending' = c.pending
    /\ mined' = c.mined
    /\ sent' = c.sent

\* seconds spent waiting for the receipt
Elapsed(o) == IF o = "TimedOut" THEN ReceiptTimeout ELSE 0

\* while an engine call runs, the node mines a transaction whose
\* confirmation wait had timed out
MinePending(id, status) ==
    /\ pc # "done"
    /\ id \in pending
    /\ sent[id].nonce = chain_nonce
    /\ pending' = {i \in pending : sent[i].nonce # chain_nonce}
    /\ mined' = (id :> status) @@ mined
    /\ chain_nonce' = chain_nonce + 1
    /\ UNCHANGED <<sent, now>>
    /\ UNCHANGED <<slipVars, sideVars, configVars, botVars, v4Vars>>

Return(success, tx, reason) ==
    /\ op_result' = [success |-> success, tx |-> tx, reason |-> reason]
    /\ pc' = "done"

LogRoute(route, o, tx) ==
    route_log' = Append(route_log, [route |-> route, outcome |-> o, ok |-> o = "Confirmed", tx |-> tx])

\* VolumeBot.execute_buy up to the first router call
StartBuy(balance_ok) ==
    /\ op = "none"
    /\ pc = "idle"
    /\ op' = "buy"
    /\ buy_count' = buy_count + 1
    /\ IF dry_run
       THEN Return(TRUE, 0, "dry_run")
       ELSE IF ~balance_ok
       THEN Return(FALSE, 0, "InsufficientBalance")
       ELSE /\ pc' = IF use_zerox THEN "zerox"
                     ELSE IF use_oneinch THEN "oneinch" ELSE "multidex"
            /\ UNCHANGED op_result
    /\ UNCHANGED <<route_log, successful_buys, failed_buys>>
    /\ UNCHANGED <<slipVars, sideVars, configVars, v4Vars, chainVars>>

\* the transaction an aggregator call signs: the calldata of the quote
AggregatorTx(route, c) ==
    [route |-> route, kind |-> "swap", gasPrice |-> eth_gas_price,
     nonce |-> get_transaction_count(c),
     view |-> "latest", deadline |-> NoValue, quote |-> NoValue,
     data |-> [fn |-> "aggregator_calldata"]]

\* any receipt at all is taken for success
StatusIsSuccess_any_receipt(o) == o \in {"Confirmed", "Reverted"}

\* receipt['status'] == 1, the test a router makes before it returns True
StatusIsSuccess(o) == o = "Confirmed"

\* the success of an aggregator is not acted on: the next route always runs
AfterAggregator_falls_through(o, next) == next

\* where execute_buy goes after an aggregator returned (success, result)
AfterAggregator(o, next) == IF o = "Confirmed" THEN "done" ELSE next

\* one aggregator call of execute_buy (ZeroXAggregator.swap_eth_for_tokens or
\* OneInchAggregator.swap_eth_for_tokens) and the branch taken on its result
BuyAggregator(route, next, o) ==
    /\ op = "buy"
    /\ pc = route
    /\ Commit(Send(ChainNow, AggregatorTx(route, ChainNow), o))
    /\ now' = now + Elapsed(o)
    /\ LogRoute(route, o, TxId(ChainNow, o))
    /\ pc' = AfterAggregator(o, next)
    /\ IF o = "Confirmed"
       THEN /\ successful_buys' = successful_buys + 1
            /\ op_result' = [success |-> TRUE, tx |-> TxId(ChainNow, o), reason |-> route]
       ELSE UNCHANGED <<successful_buys, op_result>>
    /\ UNCHANGED <<op, buy_count, failed_buys>>
    /\ UNCHANGED <<slipVars, sideVars, configVars, v4Vars>>

BuyZeroX(o) == BuyAggregator("zerox", IF use_oneinch THEN "oneinch" ELSE "multidex", o)

BuyOneInch(o) == BuyAggregator("oneinch", "multidex", o)

\* the swap transaction MultiDEXRouter signs for amount_in base units
MultiDexTx(fn2, amount_in, q, c) ==
    IF DexType(best_dex) = "uniswap_v2"
    THEN [route |-> "multidex", kind |-> "swap", gasPrice |-> eth_gas_price,
          nonce |-> get_transaction_count(c),
          view |-> "latest", deadline |-> now + 300, quote |-> q,
          data |-> [fn |-> fn2, amountIn |-> amount_in,
                    amountOutMinimum |-> DexMinOut[q]]]
    ELSE [route |-> "multidex", kind |-> "swap", gasPrice |-> eth_gas_price,
          nonce |-> get_transaction_count(c),
          view |-> "latest", deadline |-> now + 300, quote |-> NoValue,
          data |-> [fn |-> "exactInputSingle", amountIn |-> amount_in,
                    amountOutMinimum |-> <<>>, sqrtPriceLimitX96 |-> 0]]

\* MultiDEXRouter.swap_eth_for_tokens called by execute_buy, and the branch
\* execute_buy takes on its result
BuyMultiDex(o, q) ==
    /\ op = "buy"
    /\ pc = "multidex"
    /\ IF best_dex = NoValue
       THEN \* "No DEX with liquidity found": the V4 router is tried next
            /\ LogRoute("multidex", "NoDex", 0)
            /\ pc' = "v4"
            /\ attempt_number' = 1
            /\ UNCHANGED <<op_result, successful_buys, failed_buys>>
            /\ UNCHANGED chainVars
       ELSE IF DexType(best_dex) = "uniswap_v4"
       THEN \* "Uniswap V4 not implemented"
            /\ LogRoute("multidex", "NotImplemented", 0)
            /\ failed_buys' = failed_buys + 1
            /\ Return(FALSE, 0, "multidex")
            /\ UNCHANGED <<successful_buys, attempt_number>>
            /\ UNCHANGED chainVars
       ELSE /\ Commit(Send(ChainNow, MultiDexTx("swapExactETHForTokens", amount_in_wei, q, ChainNow), o))
            /\ now' = now + Elapsed(o)
            /\ LogRoute("multidex", o, TxId(ChainNow, o))
            /\ IF StatusIsSuccess(o)
               THEN /\ successful_buys' = successful_buys + 1
                    /\ Return(TRUE, TxId(ChainNow, o), "multidex")
                    /\ UNCHANGED failed_buys
               ELSE /\ failed_buys' = failed_buys + 1
                    /\ Return(FALSE, 0, "multidex")
                    /\ UNCHANGED successful_buys
            /\ UNCHANGED attempt_number
    /\ UNCHANGED <<op, buy_count, v4_attempts, total_swaps, successful_swaps>>
    /\ UNCHANGED <<slipVars, sideVars, configVars>>

\* the transaction V4UniversalRouter.swap_eth_for_tokens signs
V4BuyTx(q, c) ==
    [route |-> "v4", kind |-> "swap", gasPrice |-> eth_gas_price,
     nonce |-> get_transaction_count(c),
     view |-> "latest", deadline |-> now + deadline_seconds, quote |-> V4ExpectedOut[q],
     quote_source |-> QuoteSource(q), low_confidence |-> LowConfidence(q),
     data |-> [fn |-> "execute",
               value |-> amount_in_wei,
               commands |-> <<WRAP_ETH, V4_SWAP_EXACT_IN, Commands_TAKE, SWEEP>>,
               inputs |-> <<[recipient |-> "router_address", amount |-> amount_in_wei],
                            [hookData |-> <<>>],
                            [token |-> "token_address", recipient |-> "account", amount |-> 0],
                            [token |-> "weth", recipient |-> "account", amount |-> 0]>>,
               amountIn |-> amount_in_wei,
               amountOutMinimum |-> V4MinAmountOut[q],
               sqrtPriceLimitX96 |-> 0]]

\* retry_if_exception_type(TransactionError): the attempt raised it
RaisedTransactionError(o) == o \in {"InsufficientBalance", "Reverted", "TimedOut"}

\* tenacity runs another attempt: the retry condition holds and the stop
\* condition stop_after_attempt does not
Retried(o) == RaisedTransactionError(o) /\ attempt_number < StopAfterAttempt

\* what one attempt of a V4 router swap leaves in the router's state
V4AttemptEffects(o, c) ==
    /\ v4_attempts' = Append(v4_attempts,
           [n |-> attempt_number, outcome |-> o,
            quoted |-> o \notin {"NoPool", "ApprovalTimedOut"},
            signed |-> o \notin {"NoPool", "ApprovalTimedOut"},
            nonce |-> IF o \in {"NoPool", "ApprovalTimedOut"} THEN NoValue
                      ELSE get_transaction_count(c),
            tx |-> TxId(c, o)])
    /\ total_swaps' = IF o \in {"Confirmed", "Reverted"} THEN total_swaps + 1 ELSE total_swaps
    /\ successful_swaps' = IF o = "Confirmed" THEN successful_swaps + 1 ELSE successful_swaps

\* one attempt of V4UniversalRouter.swap_eth_for_tokens under its @retry
\* decorator, and, when the call ends, the branch execute_buy takes
BuyV4Attempt(o, q) ==
    /\ op = "buy"
    /\ pc = "v4"
    /\ Commit(Send(ChainNow, V4BuyTx(q, ChainNow), o))
    /\ V4AttemptEffects(o, ChainNow)
    /\ IF Retried(o)
       THEN /\ attempt_number' = attempt_number + 1
            /\ now' = now + Elapsed(o) + wait_exponential(attempt_number)
            /\ UNCHANGED <<pc, op_result, route_log, successful_buys, failed_buys>>
       ELSE /\ now' = now + Elapsed(o)
            /\ LogRoute("v4", o, TxId(ChainNow, o))
            /\ UNCHANGED attempt_number
            /\ IF StatusIsSuccess(o)
               THEN /\ successful_buys' = successful_buys + 1
                    /\ Return(TRUE, TxId(ChainNow, o), "v4")
                    /\ UNCHANGED failed_buys
               ELSE /\ failed_buys' = failed_buys + 1
                    /\ Return(FALSE, 0, IF o = "NoPool" THEN "NoRouteFound" ELSE "v4")
                    /\ UNCHANGED successful_buys
    /\ UNCHANGED <<op, buy_count>>
    /\ UNCHANGED <<slipVars, sideVars, configVars>>

\* VolumeBot.execute_sell up to the first router call
StartSell(has_balance) ==
    /\ op = "none"
    /\ pc = "idle"
    /\ op' = "sell"
    /\ IF dry_run
       THEN Return(TRUE, 0, "dry_run")
       ELSE IF ~has_balance
       THEN Return(FALSE, 0, "NoBalance")
       ELSE /\ pc' = "oneinch"
            /\ UNCHANGED op_result
    /\ UNCHANGED <<route_log, buy_count, successful_buys, failed_buys>>
    /\ UNCHANGED <<slipVars, sideVars, configVars, v4Vars, chainVars>>

\* token.allowance(account, spender): what an approval mined since the
\* operation began set it to, otherwise what it was before
current_allowance(c, spender) ==
    IF \E i \in DOMAIN c.mined :
          /\ c.mined[i] = 1
          /\ c.sent[i].kind = "approve"
          /\ c.sent[i].data.spender = spender
    THEN amount_in_units ELSE prior_allowance

\* current_allowance < amount_in_units, per allowance the token can report
AllowanceTooLow == Tabulate({<<>>, amount_in_units},
    [a \in {<<>>, amount_in_units} |-> BigLt(a, amount_in_units)])

\* the nonce a transaction is given, by the view the code asks the node for
NonceOf(view, c) ==
    IF view = "pending" THEN get_transaction_count_pending(c) ELSE get_transaction_count(c)

\* token.functions.approve(spender, amount_in_units), signed by route with
\* a nonce from the given view; named is the spender the aggregator's quote
\* named, NoValue when the route has fetched no quote or the quote names
\* none; allowance is the spender's allowance when the approval is signed
ApproveTx(route, spender, named, view, c) ==
    [route |-> route, kind |-> "approve", gasPrice |-> eth_gas_price,
     nonce |-> NonceOf(view, c),
     view |-> view, deadline |-> NoValue, quote |-> NoValue,
     attempt |-> attempt_number, allowance |-> current_allowance(c, spender),
     data |-> [fn |-> "approve", spender |-> spender, quote_spender |-> named,
               amount |-> amount_in_units]]

\* a swap that spends the account's tokens: the transaction tx, with the
\* spender's allowance when the router call began
TokenIn(tx, allowance) ==
    [attempt |-> attempt_number, allowance |-> allowance] @@ tx

\* result of a sale that sends an approval and then its swap: the swap is
\* reached only when the approval's receipt arrived in time
SaleOutcome(ao, o) == IF ao = "TimedOut" THEN "ApprovalTimedOut" ELSE o

\* OneInchAggregator.swap_tokens_for_eth called by execute_sell, and the
\* branch execute_sell takes on its result
SellOneInch(ao, o) ==
    LET a  == current_allowance(ChainNow, "ONEINCH_ROUTER")
        c1 == Send(ChainNow, ApproveTx("oneinch", "ONEINCH_ROUTER", NoValue, "latest", ChainNow), ao)
        r  == SaleOutcome(ao, o)
        c2 == IF ao = "TimedOut" THEN c1
              ELSE Send(c1, TokenIn(AggregatorTx("oneinch", c1), a), o)
    IN
    /\ op = "sell"
    /\ pc = "oneinch"
    /\ Commit(c2)
    /\ now' = now + Elapsed(ao) + (IF ao = "TimedOut" THEN 0 ELSE Elapsed(o))
    /\ LogRoute("oneinch", r, TxId(c1, r))
    /\ IF r = "Confirmed"
       THEN Return(TRUE, TxId(c1, r), "oneinch")
       ELSE /\ pc' = "multidex"
            /\ UNCHANGED op_result
    /\ UNCHANGED <<op, buy_count, successful_buys, failed_buys>>
    /\ UNCHANGED <<slipVars, sideVars, configVars, v4Vars>>

\* MultiDEXRouter.swap_tokens_for_eth called by execute_sell, and the branch
\* execute_sell takes on its result
SellMultiDex(ao, o, q) ==
    LET spender == best_dex
        a  == current_allowance(ChainNow, spender)
        c1 == Send(ChainNow, ApproveTx("multidex", spender, NoValue, "latest", ChainNow), ao)
        r  == SaleOutcome(ao, o)
        c2 == IF ao = "TimedOut" THEN c1
              ELSE Send(c1, TokenIn(MultiDexTx("swapExactTokensForETH", amount_in_units, q, c1),
                                    a), o)
    IN
    /\ op = "sell"
    /\ pc = "multidex"
    /\ IF best_dex = NoValue
       THEN /\ LogRoute("multidex", "NoDex", 0)
            /\ pc' = "v4"
            /\ attempt_number' = 1
            /\ UNCHANGED op_result
            /\ UNCHANGED chainVars
       ELSE IF DexType(best_dex) = "uniswap_v4"
       THEN /\ LogRoute("multidex", "NotImplemented", 0)
            /\ Return(FALSE, 0, "multidex")
            /\ UNCHANGED attempt_number
            /\ UNCHANGED chainVars
       ELSE /\ Commit(c2)
            /\ now' = now + Elapsed(ao) + (IF ao = "TimedOut" THEN 0 ELSE Elapsed(o))
            /\ LogRoute("multidex", r, TxId(c1, r))
            /\ Return(r = "Confirmed", IF r = "Confirmed" THEN TxId(c1, r) ELSE 0, "multidex")
            /\ UNCHANGED attempt_number
    /\ UNCHANGED <<op, buy_count, successful_buys, failed_buys>>
    /\ UNCHANGED <<v4_attempts, total_swaps, successful_swaps>>
    /\ UNCHANGED <<slipVars, sideVars, configVars>>

\* the transaction V4UniversalRouter.swap_tokens_for_eth signs
V4SellTx(q, c) ==
    [route |-> "v4", kind |-> "swap", gasPrice |-> eth_gas_price,
     nonce |-> get_transaction_count(c),
     view |-> "latest", deadline |-> now + deadline_seconds, quote |-> V4SellExpectedOut[q],
     quote_source |-> QuoteSource(q), low_confidence |-> LowConfidence(q),
     data |-> [fn |-> "execute",
               value |-> <<>>,
               commands |-> <<V4_SWAP_EXACT_IN, UNWRAP_WETH, SWEEP>>,
               amountIn |-> amount_in_units,
               amountOutMinimum |-> V4SellMinAmountOut[q],
               sqrtPriceLimitX96 |-> 0]]

\* one attempt of V4UniversalRouter.swap_tokens_for_eth under its @retry
\* decorator, and, when the call ends, the branch execute_sell takes
SellV4Attempt(ao, o, q) ==
    LET a  == current_allowance(ChainNow, "v4_router")
        approves == o # "NoPool" /\ AllowanceTooLow[a]
        c1 == IF approves
              THEN Send(ChainNow, ApproveTx("v4", "v4_router", NoValue, "latest", ChainNow), ao)
              ELSE ChainNow
        r  == IF approves THEN SaleOutcome(ao, o) ELSE o
        c2 == IF r = "ApprovalTimedOut" THEN c1 ELSE Send(c1, TokenIn(V4SellTx(q, c1), a), r)
        waited == (IF approves THEN Elapsed(ao) ELSE 0)
                  + (IF r = "ApprovalTimedOut" THEN 0 ELSE Elapsed(r))
    IN
    /\ op = "sell"
    /\ pc = "v4"
    /\ Commit(c2)
    /\ V4AttemptEffects(r, c1)
    /\ IF Retried(r)
       THEN /\ attempt_number' = attempt_number + 1
            /\ now' = now + waited + wait_exponential(attempt_number)
            /\ UNCHANGED <<pc, op_result, route_log>>
       ELSE /\ now' = now + waited
            /\ LogRoute("v4", r, TxId(c1, r))
            /\ UNCHANGED attempt_number
            /\ Return(r = "Confirmed", IF r = "Confirmed" THEN TxId(c1, r) ELSE 0,
                      IF r = "NoPool" THEN "NoRouteFound" ELSE "v4")
    /\ UNCHANGED <<op, buy_count, successful_buys, failed_buys>>
    /\ UNCHANGED <<slipVars, sideVars, configVars>>

\* the transaction ZeroXAggregator.swap_tokens_for_eth signs
ZeroXSellTx(c) ==
    [route |-> "zerox", kind |-> "swap", gasPrice |-> eth_gas_price,
     nonce |-> get_transaction_count_pending(c),
     view |-> "pending", deadline |-> NoValue, quote |-> NoValue,
     data |-> [fn |-> "aggregator_calldata"]]

\* the spender a 0x quote names in issues.allowance.spender or
\* allowanceTarget, NoValue when it names none
QuoteSpenders == {NoValue, "quote_spender"}

\* how a 0x sale can end: as an aggregator call does, or with a quote that
\* holds no 'transaction', which is looked at after the approval
ZeroXSellOutcomes == AggregatorOutcomes \cup {"NoTransactionData"}

\* ZeroXAggregator.swap_tokens_for_eth, called on its own (execute_sell
\* does not use it)
SellZeroX(named, ao, o) ==
    LET allowance_target == IF named = NoValue THEN "ALLOWANCE_HOLDER" ELSE named
        a  == current_allowance(ChainNow, allowance_target)
        approves == o # "NoQuote" /\ AllowanceTooLow[a]
        c1 == IF approves
              THEN Send(ChainNow,
                        ApproveTx("zerox", allowance_target, named, "pending", ChainNow), ao)
              ELSE ChainNow
        r  == IF approves THEN SaleOutcome(ao, o) ELSE o
        c2 == IF r = "ApprovalTimedOut" THEN c1
              ELSE Send(c1, TokenIn(ZeroXSellTx(c1), a), r)
    IN
    /\ op = "none"
    /\ pc = "idle"
    /\ op' = "zerox_sell"
    /\ Commit(c2)
    /\ now' = now + (IF approves THEN Elapsed(ao) ELSE 0)
                  + (IF r = "ApprovalTimedOut" THEN 0 ELSE Elapsed(r))
    /\ LogRoute("zerox", r, TxId(c1, r))
    /\ Return(r = "Confirmed", IF r = "Confirmed" THEN TxId(c1, r) ELSE 0, "zerox")
    /\ UNCHANGED <<buy_count, successful_buys, failed_buys>>
    /\ UNCHANGED <<slipVars, sideVars, configVars, v4Vars>>

Next ==
    \/ \E b \in BOOLEAN : StartBuy(b)
    \/ \E o \in AggregatorOutcomes : BuyZeroX(o)
    \/ \E o \in AggregatorOutcomes : BuyOneInch(o)
    \/ \E o \in DirectOutcomes, q \in QuoterResults \ {<<>>} : BuyMultiDex(o, q)
    \/ \E o \in V4Outcomes, q \in QuoterResults : BuyV4Attempt(o, q)
    \/ \E b \in BOOLEAN : StartSell(b)
    \/ \E ao \in ApprovalOutcomes, o \in AggregatorOutcomes : SellOneInch(ao, o)
    \/ \E ao \in ApprovalOutcomes, o \in DirectOutcomes, q \in QuoterResults \ {<<>>} :
           SellMultiDex(ao, o, q)
    \/ \E ao \in ApprovalOutcomes, o \in V4Outcomes, q \in QuoterResults :
           SellV4Attempt(ao, o, q)
    \/ \E named \in QuoteSpenders, ao \in ApprovalOutcomes, o \in ZeroXSellOutcomes :
           SellZeroX(named, ao, o)
    \/ \E id \in pending, status \in {0, 1} : MinePending(id, status)

Spec == Init /\ [][Next]_vars

(***************************************************************************)
(* Requests with a malformed address or an invalid amount, as              *)
(* V4UniversalRouter.swap_eth_for_tokens (under its @retry decorator) and  *)
(* the v4_trading router's swap_exact_in treat them.                       *)
(***************************************************************************)

IsHexDigit(ch) == ch \in 48..57 \/ IsUpperHex(ch) \/ IsLowerHex(ch)

\* Web3.is_address of the 40 characters after "0x": hexadecimal, and when
\* the letters are of mixed case the EIP-55 spelling
is_address(a) ==
    /\ Len(a) = 40
    /\ \A i \in 1..Len(a) : IsHexDigit(a[i])
    /\ \/ a = lower(a)
       \/ a = upper(a)
       \/ a \in KnownAddresses

\* malformed token addresses: too short, not hexadecimal, wrong checksum
ShortAddress == SubSeq(COMPUTE, 1, 39)

NonHexAddress == [COMPUTE EXCEPT ![1] = 103]

BadChecksumAddress == [i \in 1..40 |-> IF i <= 20 THEN COMPUTE[i] ELSE lower(COMPUTE)[i]]

RequestTokens == {COMPUTE, lower(COMPUTE), ShortAddress, NonHexAddress, BadChecksumAddress}

\* amount_eth of a request, in ETH
RequestAmounts == {-1, 0, 1}

\* slippage_percent of a request
RequestSlippages == {2, 101}

\* eth_abi encode of a uint256: a negative value raises
EncodesAsUint(n) == n >= 0

CallStart == [state |-> "idle", attempts |-> 0, sent |-> 0, success |-> FALSE,
              error |-> NoValue]

InitRequest ==
    /\ request \in [fn : {"swap_eth_for_tokens", "swap_exact_in"}, token : RequestTokens,
                    amount : RequestAmounts, slippage : RequestSlippages]
    /\ call = CallStart
    /\ MainIdle
    /\ PoolIdle
    /\ GasIdle
    /\ DiscIdle
    /\ SwarmIdle
    /\ RotIdle
    /\ LoopIdle
    /\ KeyIdle

\* the call ends with an exception that tenacity does not retry
Raises(error) ==
    call' = [call EXCEPT !.state = "raised", !.attempts = @ + 1, !.error = error]

\* the call returns (False, message)
ReturnsFalse(error, accepted) ==
    call' = [call EXCEPT !.state = "returned", !.attempts = @ + 1, !.error = error,
                         !.sent = IF accepted THEN @ + 1 ELSE @]

\* the attempt raises TransactionError: tenacity runs another attempt until
\* stop_after_attempt, then re-raises
RaisesTransactionError(accepted) ==
    call' = [call EXCEPT
                !.state = IF call.attempts + 1 < StopAfterAttempt THEN "retrying" ELSE "raised",
                !.attempts = @ + 1,
                !.error = "TransactionError",
                !.sent = IF accepted THEN @ + 1 ELSE @]

\* one attempt of V4UniversalRouter.swap_eth_for_tokens: the address is
\* converted before the try block, the amount is not looked at until it is
\* encoded, and every exception of the try block becomes a TransactionError
SwapEthForTokensAttempt(found, o) ==
    /\ request.fn = "swap_eth_for_tokens"
    /\ call.state \in {"idle", "retrying"}
    /\ IF ~is_address(request.token) THEN Raises("ValueError")
       ELSE IF ~found THEN ReturnsFalse("NoPool", FALSE)
       ELSE IF ~EncodesAsUint(request.amount) THEN RaisesTransactionError(FALSE)
       ELSE IF o = "Confirmed"
       THEN call' = [call EXCEPT !.state = "returned", !.attempts = @ + 1,
                                 !.sent = @ + 1, !.success = TRUE, !.error = NoValue]
       ELSE RaisesTransactionError(Accepted(o))
    /\ UNCHANGED request
    /\ UNCHANGED notReqVars

\* swap_exact_in of the v4_trading router: one try block around the whole
\* call, which validates the slippage and nothing else
SwapExactIn(found, o) ==
    /\ request.fn = "swap_exact_in"
    /\ call.state = "idle"
    /\ IF ~is_address(request.token) THEN ReturnsFalse("SwapError", FALSE)
       ELSE IF request.slippage < 0 \/ request.slippage > 100
       THEN ReturnsFalse("Slippage", FALSE)
       ELSE IF ~found THEN ReturnsFalse("NoPool", FALSE)
       ELSE IF ~EncodesAsUint(request.amount) THEN ReturnsFalse("SwapError", FALSE)
       ELSE IF o = "Confirmed"
       THEN call' = [call EXCEPT !.state = "returned", !.attempts = @ + 1,
                                 !.sent = @ + 1, !.success = TRUE]
       ELSE ReturnsFalse(IF o = "Reverted" THEN "Failed" ELSE "SwapError", Accepted(o))
    /\ UNCHANGED request
    /\ UNCHANGED notReqVars

NextRequest ==
    \/ \E found \in BOOLEAN, o \in DirectOutcomes : SwapEthForTokensAttempt(found, o)
    \/ \E found \in BOOLEAN, o \in DirectOutcomes : SwapExactIn(found, o)

SpecRequest == InitRequest /\ [][NextRequest]_vars

(***************************************************************************)
(* The swarm: SecureSwarmManager.fund_swarm, reclaim_funds,                *)
(* verify_zero_balances and dissolve_swarm, and the buy and sell of a      *)
(* swarm wallet's ComputeTrader.  ETH amounts are in units of 0.0001 ETH,  *)
(* COMPUTE amounts in units of 0.0001 token; transaction fees are below    *)
(* that resolution.                                                        *)
(***************************************************************************)

\* swarm operations called in one behaviour
MaxSwarmOps == 1

\* SwarmWallet.index of the wallets of the swarm
Wallets == {0, 1}

\* SwarmWalletConfig.min_eth_per_wallet = 0.01
MIN_ETH_PER_WALLET == 100

\* SwarmWalletConfig.eth_fund_amount = 0.02
ETH_FUND_AMOUNT == 200

\* gas_cost of _reclaim_eth: to_wei(0.0001, 'ether')
RECLAIM_GAS_COST == 1

\* min_eth_per_wallet while dissolve_swarm reclaims: 0.0, or 0.0001
DissolveMinEth(force) == IF force THEN 0 ELSE 1

\* the dust verify_zero_balances lets pass: 0.0001 COMPUTE
COMPUTE_DUST == 1

\* Config.buy_amount_eth = 0.002
BUY_AMOUNT_ETH == 20

\* COMPUTE a confirmed buy brings
BoughtCompute == 50000

EthLevels == {0, ETH_FUND_AMOUNT}

ComputeLevels == {0, BoughtCompute}

\* a send raised or its receipt has status 0, or the receipt has status 1
SwarmOutcomes == {"Failed", "Confirmed"}

InitSwarm ==
    /\ swarm_dry_run \in BOOLEAN
    /\ swarm_wallets \in [Wallets -> [eth : EthLevels, compute : ComputeLevels,
                                      is_active : {TRUE}]]
    /\ swarm_txs = {}
    /\ key_file = "present"
    /\ swarm_ops = <<>>
    /\ MainIdle
    /\ PoolIdle
    /\ GasIdle
    /\ DiscIdle
    /\ ReqIdle
    /\ RotIdle
    /\ LoopIdle
    /\ KeyIdle

\* an operation sends nothing although dry_run is set
IsDryRun_ignored(flag) == FALSE

\* if self.config.dry_run: ... return
IsDryRun(flag) == flag

\* the operation is over: what it returned or raised
Ends(name, result) ==
    swarm_ops' = Append(swarm_ops, [op |-> name, result |-> result])

SwarmTx(name, w, kind) == [op |-> name, wallet |-> w, kind |-> kind]

\* how the funding of one wallet can end: sign or send raised, the receipt
\* had status 0, the receipt had status 1
FundOutcomes == {"SendFailed", "Reverted", "Confirmed"}

\* get_transaction_count(main_address, 'pending') when fund_swarm starts
FunderPendingNonces == {0, 5}

\* the nonce of the next wallet's transaction: next_nonce += 1 comes before
\* the signing and the sending
NonceAfter(next_nonce, o) == next_nonce + 1

\* the loop of fund_swarm from wallet w on: the transactions it builds, each
\* with its nonce and whether it was broadcast
RECURSIVE FundLoop(_, _, _, _)
FundLoop(w, next_nonce, outs, n) ==
    IF w \notin Wallets THEN {}
    ELSE {[op |-> "fund_swarm", wallet |-> w, kind |-> "eth", call |-> n,
           nonce |-> next_nonce, broadcast |-> outs[w] # "SendFailed"]}
             \cup FundLoop(w + 1, NonceAfter(next_nonce, outs[w]), outs, n)

\* SecureSwarmManager.fund_swarm
FundSwarm(main_ok, pending_nonce, outs) ==
    /\ Len(swarm_ops) < MaxSwarmOps
    /\ IF ~main_ok
       THEN /\ Ends("fund_swarm", "InsufficientFundsError")
            /\ UNCHANGED <<swarm_wallets, swarm_txs>>
       ELSE IF IsDryRun(swarm_dry_run)
       THEN /\ Ends("fund_swarm", "dry_run")
            /\ UNCHANGED <<swarm_wallets, swarm_txs>>
       ELSE /\ swarm_txs' = swarm_txs \cup FundLoop(0, pending_nonce, outs, Len(swarm_ops) + 1)
            /\ swarm_wallets' =
                   [w \in Wallets |->
                       IF outs[w] = "Confirmed"
                       THEN [swarm_wallets[w] EXCEPT !.eth = @ + ETH_FUND_AMOUNT]
                       ELSE swarm_wallets[w]]
            /\ swarm_ops' = Append(swarm_ops, [op |-> "fund_swarm", result |-> "returned",
                                               pending_nonce |-> pending_nonce])
    /\ UNCHANGED <<swarm_dry_run, key_file>>
    /\ UNCHANGED notSwarmVars

\* _get_wallet_balance: (0.0, 0.0) when the node cannot be read
get_wallet_balance(wal, read_ok) ==
    IF read_ok THEN [eth |-> wal.eth, compute |-> wal.compute]
    ELSE [eth |-> 0, compute |-> 0]

\* _reclaim_compute is called and signs a transfer of the whole balance
SendsCompute(wal, reclaim_compute, read_ok) ==
    reclaim_compute /\ get_wallet_balance(wal, read_ok).compute > 0

\* _reclaim_eth is called and signs a transfer of the balance less the
\* reserve and the estimated gas cost
SendsEth(wal, min_eth, read_ok) ==
    /\ get_wallet_balance(wal, read_ok).eth > min_eth
    /\ wal.eth - min_eth - RECLAIM_GAS_COST > 0

\* the body of the loop of reclaim_funds for one wallet: the transfers, then
\* swarm_wallet.is_active = False whatever the transfers did
ReclaimedWallet(wal, min_eth, reclaim_compute, read_ok, c_out, e_out) ==
    [eth |-> IF SendsEth(wal, min_eth, read_ok) /\ e_out = "Confirmed"
             THEN min_eth + RECLAIM_GAS_COST ELSE wal.eth,
     compute |-> IF SendsCompute(wal, reclaim_compute, read_ok) /\ c_out = "Confirmed"
                 THEN 0 ELSE wal.compute,
     is_active |-> FALSE]

\* the transactions the loop of reclaim_funds signs for wallet w
ReclaimTxs(w, min_eth, reclaim_compute, read_ok) ==
    (IF SendsCompute(swarm_wallets[w], reclaim_compute, read_ok)
     THEN {SwarmTx("reclaim_funds", w, "compute")} ELSE {})
    \cup (IF SendsEth(swarm_wallets[w], min_eth, read_ok)
          THEN {SwarmTx("reclaim_funds", w, "eth")} ELSE {})

\* reclaim_funds after its address check: nothing under dry_run; a wallet
\* whose key cannot be decrypted is skipped with a FAILED record
ReclaimAll(min_eth, reclaim_compute, password_ok, reads, c_outs, e_outs) ==
    IF IsDryRun(swarm_dry_run) \/ ~password_ok
    THEN [wallets |-> swarm_wallets, txs |-> {}]
    ELSE [wallets |-> [w \in Wallets |->
                          ReclaimedWallet(swarm_wallets[w], min_eth, reclaim_compute,
                                          reads[w], c_outs[w], e_outs[w])],
          txs |-> UNION {ReclaimTxs(w, min_eth, reclaim_compute, reads[w]) : w \in Wallets}]

\* SecureSwarmManager.reclaim_funds
ReclaimFunds(address_ok, reclaim_compute, password_ok, reads, c_outs, e_outs) ==
    LET after == ReclaimAll(MIN_ETH_PER_WALLET, reclaim_compute, password_ok, reads,
                            c_outs, e_outs)
    IN
    /\ Len(swarm_ops) < MaxSwarmOps
    /\ IF ~address_ok
       THEN /\ Ends("reclaim_funds", "ValueError")
            /\ UNCHANGED <<swarm_wallets, swarm_txs>>
       ELSE /\ swarm_wallets' = after.wallets
            /\ swarm_txs' = swarm_txs \cup after.txs
            /\ Ends("reclaim_funds", IF IsDryRun(swarm_dry_run) THEN "dry_run" ELSE "returned")
    /\ UNCHANGED <<swarm_dry_run, key_file>>
    /\ UNCHANGED notSwarmVars

\* verify_zero_balances: the wallets reported as not empty
verify_zero_balances(wals, reads) ==
    {w \in Wallets :
        \/ get_wallet_balance(wals[w], reads[w]).eth > MIN_ETH_PER_WALLET * 2
        \/ get_wallet_balance(wals[w], reads[w]).compute > COMPUTE_DUST}

\* SecureSwarmManager.dissolve_swarm: reclaim_funds is given the main
\* wallet key where it expects an address; after the file is archived the
\* call of the undefined _save_audit_trail raises AttributeError
DissolveSwarm(force, address_ok, password_ok, reads, c_outs, e_outs, verify_reads, rename_ok) ==
    LET after == ReclaimAll(DissolveMinEth(force), TRUE, password_ok, reads, c_outs, e_outs)
        non_zero == verify_zero_balances(after.wallets, verify_reads)
    IN
    /\ Len(swarm_ops) < MaxSwarmOps
    /\ IF ~address_ok
       THEN /\ Ends("dissolve_swarm", "ValueError")
            /\ UNCHANGED <<swarm_wallets, swarm_txs, key_file>>
       ELSE /\ swarm_wallets' = after.wallets
            /\ swarm_txs' = swarm_txs \cup after.txs
            /\ IF non_zero # {}
               THEN /\ Ends("dissolve_swarm", "False")
                    /\ UNCHANGED key_file
               ELSE IF key_file = "present" /\ ~rename_ok
               THEN /\ Ends("dissolve_swarm", "False")
                    /\ UNCHANGED key_file
               ELSE /\ key_file' = "archived"
                    /\ Ends("dissolve_swarm", "AttributeError")
    /\ UNCHANGED swarm_dry_run
    /\ UNCHANGED notSwarmVars

\* ComputeTrader.buy for swarm wallet w (SwarmTrader.execute_buy)
TraderBuy(w, gas_ok, o) ==
    /\ Len(swarm_ops) < MaxSwarmOps
    /\ IF IsDryRun(swarm_dry_run)
       THEN /\ Ends("buy", "dry_run")
            /\ UNCHANGED <<swarm_wallets, swarm_txs>>
       ELSE IF ~gas_ok
       THEN /\ Ends("buy", "gas price exceeds maximum")
            /\ UNCHANGED <<swarm_wallets, swarm_txs>>
       ELSE /\ swarm_txs' = swarm_txs \cup {SwarmTx("buy", w, "swap")}
            /\ IF o = "Confirmed" /\ swarm_wallets[w].eth >= BUY_AMOUNT_ETH
               THEN /\ swarm_wallets' = [swarm_wallets EXCEPT
                                            ![w].eth = @ - BUY_AMOUNT_ETH,
                                            ![w].compute = @ + BoughtCompute]
                    /\ Ends("buy", "success")
               ELSE /\ Ends("buy", "failed")
                    /\ UNCHANGED swarm_wallets
    /\ UNCHANGED <<swarm_dry_run, key_file>>
    /\ UNCHANGED notSwarmVars

\* ComputeTrader.sell_all for swarm wallet w (SwarmTrader.execute_sell): an
\* approval when the allowance is too low, then the swap
TraderSellAll(w, gas_ok, approves, o) ==
    /\ Len(swarm_ops) < MaxSwarmOps
    /\ IF IsDryRun(swarm_dry_run)
       THEN /\ Ends("sell_all", "dry_run")
            /\ UNCHANGED <<swarm_wallets, swarm_txs>>
       ELSE IF ~gas_ok
       THEN /\ Ends("sell_all", "gas price exceeds maximum")
            /\ UNCHANGED <<swarm_wallets, swarm_txs>>
       ELSE IF swarm_wallets[w].compute = 0
       THEN /\ Ends("sell_all", "no tokens")
            /\ UNCHANGED <<swarm_wallets, swarm_txs>>
       ELSE /\ swarm_txs' = swarm_txs
                   \cup {SwarmTx("sell_all", w, "swap")}
                   \cup (IF approves THEN {SwarmTx("sell_all", w, "approve")} ELSE {})
            /\ IF o = "Confirmed"
               THEN /\ swarm_wallets' = [swarm_wallets EXCEPT ![w].compute = 0]
                    /\ Ends("sell_all", "success")
               ELSE /\ Ends("sell_all", "failed")
                    /\ UNCHANGED swarm_wallets
    /\ UNCHANGED <<swarm_dry_run, key_file>>
    /\ UNCHANGED notSwarmVars

WalletOutcomes == [Wallets -> SwarmOutcomes]

WalletReads == [Wallets -> BOOLEAN]

AllConfirmed == [w \in Wallets |-> "Confirmed"]

AllRead == [w \in Wallets |-> TRUE]

NextSwarm ==
    \/ \E main_ok \in BOOLEAN, pending_nonce \in FunderPendingNonces,
          outs \in [Wallets -> FundOutcomes] : FundSwarm(main_ok, pending_nonce, outs)
    \/ ReclaimFunds(FALSE, TRUE, TRUE, AllRead, AllConfirmed, AllConfirmed)
    \/ \E reclaim_compute, password_ok \in BOOLEAN, reads \in WalletReads,
          c_outs, e_outs \in WalletOutcomes :
           ReclaimFunds(TRUE, reclaim_compute, password_ok, reads, c_outs, e_outs)
    \/ \E force \in BOOLEAN :
           DissolveSwarm(force, FALSE, TRUE, AllRead, AllConfirmed, AllConfirmed, AllRead, TRUE)
    \/ \E force, password_ok, rename_ok \in BOOLEAN,
          reads, verify_reads \in WalletReads, c_outs, e_outs \in WalletOutcomes :
           DissolveSwarm(force, TRUE, password_ok, reads, c_outs, e_outs,
                         verify_reads, rename_ok)
    \/ \E w \in Wallets, gas_ok \in BOOLEAN, o \in SwarmOutcomes : TraderBuy(w, gas_ok, o)
    \/ \E w \in Wallets, gas_ok, approves \in BOOLEAN, o \in SwarmOutcomes :
           TraderSellAll(w, gas_ok, approves, o)

SpecSwarm == InitSwarm /\ [][NextSwarm]_vars

\* ---------------------------------------------------------------------
\* Wallet rotation: SecureSwarmManager.create_swarm and get_next_wallet
\* ---------------------------------------------------------------------

\* RotationMode
RotationModes == {"round_robin", "random", "least_used", "balance"}

\* the wallet counts create_swarm is called with
SwarmSizes == {1, 2, 3}

\* calls of the manager looked at in one run
MaxRotationOps == 5

\* transactions a wallet records in one run
MaxTxCount == 1

\* the ETH balances _get_wallet_balance may read for one wallet
RotationBalances == {0, 1}

NoWalletReturned == <<>>

InitRotation ==
    /\ rotation \in [wallets : {<<>>}, current_index : {0}, mode : RotationModes,
                     ops : {0}, calls_round_robin : {0},
                     last : {[fn |-> "__init__", mode |-> NoValue,
                              returned |-> NoWalletReturned]}]
    /\ MainIdle
    /\ PoolIdle
    /\ GasIdle
    /\ DiscIdle
    /\ ReqIdle
    /\ SwarmIdle
    /\ LoopIdle
    /\ KeyIdle

\* the wallets create_swarm makes: tx_count 0 each
NewWallets(num_wallets) == [i \in 1..num_wallets |-> 0]

\* create_swarm: replaces self.wallets and saves; _current_index is not touched
CreateSwarm(num_wallets, password_long) ==
    /\ rotation.ops < MaxRotationOps
    /\ rotation' =
         IF ~password_long
         THEN [rotation EXCEPT !.ops = @ + 1,
                   !.last = [fn |-> "create_swarm", mode |-> NoValue,
                             returned |-> NoWalletReturned]]
         ELSE [rotation EXCEPT !.ops = @ + 1,
                   !.wallets = NewWallets(num_wallets),
                   !.calls_round_robin = 0,
                   !.last = [fn |-> "create_swarm", mode |-> NoValue,
                             returned |-> NoWalletReturned]]
    /\ UNCHANGED notRotVars

\* config.rotation_mode as the command line sets it
SetRotationMode(new_mode) ==
    /\ rotation.ops < MaxRotationOps
    /\ new_mode # rotation.mode
    /\ rotation' = [rotation EXCEPT !.ops = @ + 1, !.mode = new_mode]
    /\ UNCHANGED notRotVars

\* SwarmWallet.record_buy and record_sell: tx_count += 1
RecordTrade(index) ==
    /\ rotation.ops < MaxRotationOps
    /\ index < Len(rotation.wallets)
    /\ rotation.wallets[index + 1] < MaxTxCount
    /\ rotation' = [rotation EXCEPT !.ops = @ + 1, !.wallets[index + 1] = @ + 1]
    /\ UNCHANGED notRotVars

\* min(range(n), key=...) and balances.index(max(balances)): the first
\* position holding the least (the greatest) value, counted from 0
FirstLeast(values) ==
    (CHOOSE i \in 1..Len(values) :
        /\ \A j \in 1..Len(values) : values[i] <= values[j]
        /\ \A j \in 1..(i - 1) : values[j] > values[i]) - 1

FirstGreatest(values) ==
    (CHOOSE i \in 1..Len(values) :
        /\ \A j \in 1..Len(values) : values[i] >= values[j]
        /\ \A j \in 1..(i - 1) : values[j] < values[i]) - 1

\* the index after a ROUND_ROBIN pick
NextIndex(current, n) == (current + 1) % n

\* the index get_next_wallet picks in each mode
PickedIndex(r, random_pick, balances) ==
    CASE r.mode = "round_robin" -> r.current_index % Len(r.wallets)
      [] r.mode = "random"      -> random_pick % Len(r.wallets)
      [] r.mode = "least_used"  -> FirstLeast(r.wallets)
      [] r.mode = "balance"     -> FirstGreatest(balances)

\* get_next_wallet: picks, advances and saves, then get_wallet decrypts
GetNextWallet(password_ok, random_pick, balances) ==
    /\ rotation.ops < MaxRotationOps
    /\ Len(balances) = Len(rotation.wallets)
    /\ rotation' =
         IF Len(rotation.wallets) = 0
         THEN [rotation EXCEPT !.ops = @ + 1,
                   !.last = [fn |-> "get_next_wallet", mode |-> rotation.mode,
                             returned |-> NoWalletReturned]]
         ELSE [rotation EXCEPT !.ops = @ + 1,
                   !.current_index =
                       IF rotation.mode = "round_robin"
                       THEN NextIndex(@, Len(rotation.wallets)) ELSE @,
                   !.calls_round_robin =
                       IF rotation.mode = "round_robin" THEN @ + 1 ELSE @,
                   !.last = [fn |-> "get_next_wallet", mode |-> rotation.mode,
                             returned |->
                                 IF password_ok
                                 THEN <<PickedIndex(rotation, random_pick, balances)>>
                                 ELSE NoWalletReturned]]
    /\ UNCHANGED notRotVars

BalanceReads == UNION {[1..n -> RotationBalances] : n \in {0} \cup SwarmSizes}

NextRotation ==
    \/ \E num_wallets \in SwarmSizes, password_long \in BOOLEAN :
           CreateSwarm(num_wallets, password_long)
    \/ \E new_mode \in RotationModes : SetRotationMode(new_mode)
    \/ \E index \in 0..2 : RecordTrade(index)
    \/ \E password_ok \in BOOLEAN, random_pick \in 0..2, balances \in BalanceReads :
           GetNextWallet(password_ok, random_pick, balances)

SpecRotation == InitRotation /\ [][NextRotation]_vars

\* ---------------------------------------------------------------------
\* The main loop: VolumeBot.run
\* ---------------------------------------------------------------------

\* BotConfig.sell_after_buys as configured (10 by default)
SellAfterBuys == {1, 2, 3}

\* passes of the loop looked at in one run
MaxPasses == 5

InitLoop ==
    /\ loop \in [sell_after_buys : SellAfterBuys, dry_run : BOOLEAN,
                 buy_count : {0}, successful_buys : {0},
                 bought_since_sale : {0}, passes : {0},
                 last : {[bought |-> FALSE, sell_attempted |-> FALSE, sold |-> FALSE]}]
    /\ MainIdle
    /\ PoolIdle
    /\ GasIdle
    /\ DiscIdle
    /\ ReqIdle
    /\ SwarmIdle
    /\ RotIdle
    /\ KeyIdle

\* execute_buy as the loop sees it: buy_count += 1 whatever happens, and
\* successful_buys += 1 when a route confirmed the swap; a dry run returns
\* True without counting a successful buy
AfterBuy(l, bought) ==
    [l EXCEPT !.buy_count = @ + 1,
              !.successful_buys = IF bought /\ ~l.dry_run THEN @ + 1 ELSE @,
              !.bought_since_sale = IF bought THEN @ + 1 ELSE @]

\* "Check if time to sell"
TimeToSell(l) == l.buy_count >= l.sell_after_buys

\* the counters after execute_sell returned True
AfterSale(l) == [l EXCEPT !.buy_count = 0, !.successful_buys = 0, !.bought_since_sale = 0]

\* one pass of the while loop of run: execute_buy, and when it returned True
\* and it is time to sell, execute_sell; bought and sold are what the two
\* calls return (a dry run's execute_sell always returns True)
RunPass(bought, sold) ==
    LET b == AfterBuy(loop, bought)
        sells == bought /\ TimeToSell(b)
        e == IF sells /\ sold THEN AfterSale(b) ELSE b
    IN
    /\ loop.passes < MaxPasses
    /\ (~sells => ~sold)
    /\ (loop.dry_run /\ sells => sold)
    /\ loop' = [e EXCEPT !.passes = @ + 1,
                         !.last = [bought |-> bought, sell_attempted |-> sells,
                                   sold |-> sells /\ sold,
                                   bought_before |-> b.bought_since_sale]]
    /\ UNCHANGED notLoopVars

NextLoop == \E bought, sold \in BOOLEAN : RunPass(bought, sold)

SpecLoop == InitLoop /\ [][NextLoop]_vars

\* ---------------------------------------------------------------------
\* Password rate limiting: SecureKeyManager.load_and_decrypt
\* ---------------------------------------------------------------------

\* timedelta(hours=1) and timedelta(minutes=30), in units of ten minutes
ONE_HOUR == 6

LOCK_MINUTES == 3

\* "Lock after 5 failed attempts"
LOCK_AFTER_ATTEMPTS == 5

\* the time looked at, and the calls made, in one run
MaxKeyClock == 8

MaxKeyCalls == 7

\* RateLimitEntry(): attempts 0, first_attempt None, locked_until None
NewRateLimitEntry == [attempts |-> 0, first_attempt |-> <<>>, locked_until |-> <<>>]

InitKey ==
    /\ key_clock = 0
    /\ rate_limit = <<>>
    /\ key_calls = [made |-> 0, failed_at |-> <<>>,
                    last |-> [fn |-> "__init__"]]
    /\ MainIdle
    /\ PoolIdle
    /\ GasIdle
    /\ DiscIdle
    /\ ReqIdle
    /\ SwarmIdle
    /\ RotIdle
    /\ LoopIdle

\* RateLimitEntry.is_locked
is_locked(entry, t) ==
    IF entry.locked_until = <<>> THEN FALSE ELSE t < entry.locked_until[1]

\* "Reset after 1 hour": no first attempt, or one more than an hour old
WindowExpired(entry, t) ==
    entry.first_attempt = <<>> \/ (t - entry.first_attempt[1]) > ONE_HOUR

\* RateLimitEntry.record_attempt
record_attempt(entry, t) ==
    LET counted == IF WindowExpired(entry, t)
                   THEN [entry EXCEPT !.attempts = 1, !.first_attempt = <<t>>]
                   ELSE [entry EXCEPT !.attempts = @ + 1]
    IN IF counted.attempts >= LOCK_AFTER_ATTEMPTS
       THEN [counted EXCEPT !.locked_until = <<t + LOCK_MINUTES>>]
       ELSE counted

\* self._rate_limits.get(key, RateLimitEntry())
StoredEntry == IF rate_limit = <<>> THEN NewRateLimitEntry ELSE rate_limit[1]

\* the times of the last five failed decryptions since the last success
Remember(failed, t) ==
    LET all == Append(failed, t)
    IN IF Len(all) > LOCK_AFTER_ATTEMPTS THEN Tail(all) ELSE all

\* load_and_decrypt: refused while the entry is locked; otherwise the file
\* is read and decrypted, a success resets the entry and a failure is
\* recorded in it; a missing file returns None and records nothing
LoadAndDecrypt(file_exists, password_ok) ==
    LET entry == StoredEntry
        locked == is_locked(entry, key_clock)
        tries == ~locked /\ file_exists
        ok == tries /\ password_ok
    IN
    /\ key_calls.made < MaxKeyCalls
    /\ rate_limit' = IF locked THEN rate_limit
                     ELSE IF ~file_exists THEN <<entry>>
                     ELSE IF password_ok THEN <<NewRateLimitEntry>>
                     ELSE <<record_attempt(entry, key_clock)>>
    /\ key_calls' = [made |-> key_calls.made + 1,
                     failed_at |-> IF ok THEN <<>>
                                   ELSE IF tries THEN Remember(key_calls.failed_at, key_clock)
                                   ELSE key_calls.failed_at,
                     last |-> [fn |-> "load_and_decrypt", at |-> key_clock,
                               password_ok |-> password_ok,
                               failed_before |-> key_calls.failed_at,
                               decrypts |-> tries,
                               returned |-> IF ok THEN "private_key" ELSE NoValue]]
    /\ UNCHANGED key_clock
    /\ UNCHANGED notKeyVars

\* ten minutes pass
KeyClockTicks ==
    /\ key_clock < MaxKeyClock
    /\ key_clock' = key_clock + 1
    /\ UNCHANGED <<rate_limit, key_calls>>
    /\ UNCHANGED notKeyVars

NextKey ==
    \/ \E file_exists, password_ok \in BOOLEAN : LoadAndDecrypt(file_exists, password_ok)
    \/ KeyClockTicks

SpecKey == InitKey /\ [][NextKey]_vars

\* floor(E * (10000 - bps) / 10000) in exact integer arithmetic
ExactFloorMinOut(expected, bps) == BigDivSmall(BigMulSmall(expected, 10000 - bps), 10000)

\* C2: for every expected output E and every tolerance s in basis points the
\* minimum output is exactly floor(E * (10000 - s) / 10000).
C2_MinOutIsExactFloor ==
    min_lo["v4_router"] # NoValue =>
        /\ min_lo["v4_router"] = ExactFloorMinOut(expected_out, slip_lo)
        /\ min_hi["v4_router"] = ExactFloorMinOut(expected_out, slip_hi)

\* C3: for a fixed expected output the minimum output is non-increasing in
\* the slippage tolerance: s1 <= s2 implies minOut(E, s1) >= minOut(E, s2),
\* in each of the three implementations.
C3_MinOutNonIncreasing ==
    \A i \in Implementations :
        min_lo[i] # NoValue => BigLe(min_hi[i], min_lo[i])

C3_Witness ==
    /\ slip_lo < slip_hi
    /\ \A i \in Implementations : min_lo[i] # NoValue /\ BigLt(min_hi[i], min_lo[i])

\* C4: for every expected output E, also one beyond the exact range of a
\* double, the minimum output is E at 0% slippage and 0 at 100% slippage.
C4_ZeroAndFullSlippage ==
    \A i \in {"v4_router", "quoter"} :
        min_lo[i] # NoValue =>
            /\ slip_lo = 0 => min_lo[i] = expected_out
            /\ slip_hi = 10000 => min_hi[i] = <<>>

(***************************************************************************)
(* Properties of the engine                                                *)
(***************************************************************************)
\* BotConfig.slippage_percent in basis points
ConfigSlippageBps == 200

\* the swap transactions broadcast by direct venue routing (function call or
\* command sequence)
DirectSwaps == {i \in 1..Len(sent) : sent[i].kind = "swap" /\ sent[i].route \in {"multidex", "v4"}}

\* C1: every swap transaction built by direct venue routing, whether a
\* router command sequence or an exact-input function call, carries as its
\* minimum-output bound the value derived from the expected output and the
\* slippage tolerance, and leaves the price limit unbounded (0).
C1_SwapCarriesDerivedMinimum ==
    \A i \in DirectSwaps :
        /\ sent[i].quote # NoValue
        /\ sent[i].data.amountOutMinimum = ExactFloorMinOut(sent[i].quote, ConfigSlippageBps)
        /\ "sqrtPriceLimitX96" \in DOMAIN sent[i].data => sent[i].data.sqrtPriceLimitX96 = 0

\* outcomes by which a route reports that it cannot route the pair
CannotRoute == {"NoQuote", "NoDex", "NoPool"}

\* position of a route in the fallback order
RouteRank(route) ==
    CASE route = "zerox" -> 1
      [] route = "oneinch" -> 2
      [] route = "multidex" -> 3
      [] route = "v4" -> 3

\* C5: in a buy or a sell the routes are tried in the order primary
\* aggregator, next aggregator, direct venue routing; a later route is tried
\* only after every earlier route reported that it cannot route; and when
\* direct routing's discovery finds nothing either, the operation fails with
\* NoRouteFound.
C5_LaterRouteOnlyAfterCannotRoute ==
    /\ \A i, j \in 1..Len(route_log) :
          i < j => /\ RouteRank(route_log[i].route) <= RouteRank(route_log[j].route)
                   /\ route_log[i].outcome \in CannotRoute
    /\ v4_attempts # <<>> =>
          \A i \in 1..Len(route_log) :
              route_log[i].route # "v4" => route_log[i].outcome \in CannotRoute
    /\ (pc = "done" /\ route_log # <<>> /\ route_log[Len(route_log)].outcome = "NoPool")
          => (~op_result.success /\ op_result.reason = "NoRouteFound")

\* the primary aggregator reported that it cannot route and the secondary
\* aggregator succeeded
SecondarySucceeded ==
    /\ op = "buy"
    /\ Len(route_log) >= 2
    /\ route_log[1].route = "zerox"
    /\ route_log[1].outcome = "NoQuote"
    /\ route_log[2].route = "oneinch"
    /\ route_log[2].ok

\* C6: when the primary aggregator reports that it cannot route and the
\* secondary aggregator succeeds, the operation ends with the secondary's
\* result (success, carrying the secondary's transaction) and no further
\* route is attempted.
C6_SecondaryResultIsFinal ==
    SecondarySucceeded =>
        /\ pc = "done"
        /\ op_result.success
        /\ op_result.tx = route_log[2].tx
        /\ sent[op_result.tx].route = "oneinch"
        /\ mined[op_result.tx] = 1
        /\ Len(route_log) = 2
        /\ v4_attempts = <<>>
        /\ Len(sent) = 1

C6_Witness == SecondarySucceeded /\ pc = "done" /\ successful_buys = 1

\* C7: against a venue that always reverts the swap is attempted exactly
\* max_retries times, the configured maximum, and then fails.
C7_AttemptsEqualMaxRetries ==
    (/\ pc = "done"
     /\ v4_attempts # <<>>
     /\ \A i \in 1..Len(v4_attempts) : v4_attempts[i].outcome = "Reverted")
        => (Len(v4_attempts) = max_retries /\ ~op_result.success)

\* C8: an attempt that ends Reverted or TimedOut is retried while retries
\* remain; an attempt that ends Confirmed or InsufficientBalance is terminal,
\* no attempt ever follows it.
C8_TerminalOutcomesNotRetried ==
    /\ \A i \in 1..Len(v4_attempts) :
          i < Len(v4_attempts) => v4_attempts[i].outcome \in {"Reverted", "TimedOut"}
    /\ (pc = "done" /\ v4_attempts # <<>>
          /\ v4_attempts[Len(v4_attempts)].outcome \in {"Reverted", "TimedOut"})
          => Len(v4_attempts) = StopAfterAttempt

\* the attempts of the V4 router that broadcast a swap
Broadcasts == {i \in 1..Len(v4_attempts) : v4_attempts[i].tx # 0}

\* C9: every retry redoes the whole attempt (new quote, new encoding, new
\* signature over a fresh nonce) and no signed payload is broadcast twice.
C9_RetryUsesFreshNonce ==
    /\ \A i \in 1..Len(v4_attempts) :
          v4_attempts[i].outcome \notin {"NoPool", "ApprovalTimedOut"}
              => v4_attempts[i].quoted /\ v4_attempts[i].signed
    /\ \A i, j \in Broadcasts :
          i < j => /\ v4_attempts[i].nonce # v4_attempts[j].nonce
                   /\ sent[v4_attempts[i].tx] # sent[v4_attempts[j].tx]

\* the attempts of the V4 router that got past pool discovery
SwapAttempts == {i \in 1..Len(v4_attempts) : v4_attempts[i].outcome # "NoPool"}

\* C10: every swap attempt, whatever its outcome (confirmed, reverted, timed
\* out, failed before broadcast), leaves exactly one record: the number of
\* recorded attempts equals the number of attempts made.
C10_OneRecordPerAttempt == total_swaps = Cardinality(SwapAttempts)


(***************************************************************************)
(* Pool keys and pool identifiers                                          *)
(***************************************************************************)

PoolIdFunctions == {"get_pool_id", "_compute_pool_id"}

\* the two tokens of the derivation, as integers
TokenIntegers == {int16(to_checksum_address(tokenA)), int16(to_checksum_address(tokenB))}

\* C11: the pool identifier derived for (A, B, fee) equals the one derived
\* for (B, A, fee)
C11_PoolIdIgnoresTokenOrder ==
    pool_out.fn \in PoolIdFunctions => pool_out.id_ab = pool_out.id_ba

\* a derivation whose first token is the larger of two different addresses
C11_Witness ==
    /\ pool_out.fn = "get_pool_id"
    /\ BigLt(int16(to_checksum_address(tokenB)), int16(to_checksum_address(tokenA)))
    /\ pool_out.id_ab = pool_out.id_ba

\* the first two words of an encoded key are in integer order and are the
\* two tokens
SortedWords(id) ==
    /\ BigLe(id.keccak256[1], id.keccak256[2])
    /\ {id.keccak256[1], id.keccak256[2]} = TokenIntegers

\* C12: in every pool key the engine builds, currency0 is the token with
\* the smaller address, compared as integers, whatever the letter case the
\* addresses are supplied in
C12_Currency0IsSmallerAddress ==
    /\ pool_out.fn \in PoolIdFunctions =>
           SortedWords(pool_out.id_ab) /\ SortedWords(pool_out.id_ba)
    /\ pool_out.fn \in {"_find_v4_pool", "dry_run"} =>
           BigLe(int16(pool_out.pool.currency0), int16(pool_out.pool.currency1))
    /\ pool_out.fn = "_find_v4_pool" =>
           {pool_out.pool.currency0, pool_out.pool.currency1} =
               {WETH, to_checksum_address(tokenA)}

\* a sale of a token above the wrapped native token, its address given in
\* lower case
C12_Witness ==
    /\ pool_out.fn = "_find_v4_pool"
    /\ pool_out.side = "sell"
    /\ tokenA = lower(COMPUTE)
    /\ pool_out.pool.currency0 = WETH
    /\ pool_out.pool.currency1 = COMPUTE

\* C13: the derivation is pure: identical inputs give the identical
\* identifier, and changing any one of fee, tickSpacing or hooks gives a
\* different one
C13_PoolIdDependsOnEveryField ==
    pool_out.fn = "get_pool_id" =>
        IF pool_out.altered = "none" THEN pool_out.id_alt = pool_out.id_ab
        ELSE pool_out.id_alt # pool_out.id_ab

\* a derivation repeated with another hooks address
C13_Witness ==
    /\ pool_out.fn = "get_pool_id"
    /\ pool_out.altered = "hooks"
    /\ pool_out.id_alt # pool_out.id_ab

\* C14: zeroForOne is true exactly when the input token is currency0 of the
\* pool key built for the same swap, for every pair of distinct addresses
C14_ZeroForOneIffInputIsCurrency0 ==
    /\ (/\ pool_out.fn = "_is_zero_for_one"
        /\ to_checksum_address(tokenA) # to_checksum_address(tokenB)) =>
           (pool_out.zero_for_one <=>
               pool_out.pool_id.keccak256[1] = int16(to_checksum_address(tokenA)))
    /\ (/\ pool_out.fn = "_find_v4_pool"
        /\ to_checksum_address(tokenA) # WETH) =>
           (pool_out.pool.zeroForOne <=>
               pool_out.pool.currency0 =
                   IF pool_out.side = "buy" THEN WETH ELSE to_checksum_address(tokenA))

\* a swap from the larger to the smaller of two different addresses, the
\* input given in upper case
C14_Witness ==
    /\ pool_out.fn = "_is_zero_for_one"
    /\ tokenA = upper(ADDR_0B)
    /\ tokenB = ADDR_ONE
    /\ ~pool_out.zero_for_one

StandardFees == {100, 500, 3000, 10000}

\* the spacing the claim gives for a fee
ClaimedTickSpacing ==
    IF feeIn = 100 THEN 1
    ELSE IF feeIn = 500 THEN 10
    ELSE IF feeIn = 3000 THEN 60
    ELSE IF feeIn = 10000 THEN 200
    ELSE 60

\* C15: the tick spacing is 1, 10, 60 and 200 for the fees 100, 500, 3000
\* and 10000; any other fee gets the default 60 and does not fail
C15_TickSpacingOfFee ==
    /\ pool_out.fn = "get_pool_tick_spacing" => pool_out.tick_spacing = ClaimedTickSpacing
    /\ (pool_out.fn = "get_pool_id" /\ tickIn = <<>>) =>
           pool_out.id_ab.keccak256[4] = ClaimedTickSpacing

\* the spacing asked for a fee outside the four tiers
C15_Witness ==
    /\ pool_out.fn = "get_pool_tick_spacing"
    /\ feeIn \notin StandardFees
    /\ pool_out.tick_spacing = 60


(***************************************************************************)
(* Command sequences, approvals and nonces                                 *)
(***************************************************************************)

\* the V4 router swaps that pay in the native currency
NativeInSwaps ==
    {i \in 1..Len(sent) :
        sent[i].route = "v4" /\ sent[i].kind = "swap" /\ sent[i].data.value # <<>>}

\* C16: a native-in swap issues, in this order: wrap-native with the
\* router as recipient, swap-exact-in, settle of the input side, take of
\* the output to the caller, sweep of the residual wrapped-native to the
\* caller
C16_NativeInCommandOrder ==
    \A i \in NativeInSwaps :
        /\ sent[i].data.commands =
               <<WRAP_ETH, V4_SWAP_EXACT_IN, SETTLE, Commands_TAKE, SWEEP>>
        /\ sent[i].data.inputs[1].recipient = "router_address"
        /\ sent[i].data.inputs[4].recipient = "account"
        /\ sent[i].data.inputs[5].token = "weth"
        /\ sent[i].data.inputs[5].recipient = "account"

Approvals == {i \in 1..Len(sent) : sent[i].kind = "approve"}

\* the swaps that spend the account's tokens
TokenInSwaps == {i \in 1..Len(sent) : sent[i].kind = "swap" /\ "allowance" \in DOMAIN sent[i]}

\* the router call that sent swap i sent an approval first
ApprovedBefore(i) ==
    \E j \in Approvals :
        j < i /\ sent[j].route = sent[i].route /\ sent[j].attempt = sent[i].attempt

\* C17: for a token-in swap an approval transaction is issued before the
\* swap if and only if the spender's current allowance is below the amount
C17_ApprovalIffAllowanceTooLow ==
    /\ \A j \in Approvals : AllowanceTooLow[sent[j].allowance]
    /\ \A i \in TokenInSwaps : ApprovedBefore(i) <=> AllowanceTooLow[sent[i].allowance]

Aggregators == {"zerox", "oneinch"}

\* C18: whenever the engine approves a spender for an aggregator swap, the
\* approved address is the spender named in the aggregator's quote
\* response, never a fixed built-in address
C18_ApprovedSpenderIsQuoted ==
    \A j \in Approvals :
        sent[j].route \in Aggregators =>
            /\ sent[j].data.quote_spender # NoValue
            /\ sent[j].data.spender = sent[j].data.quote_spender

\* C19: no two transactions of the signer carry the same nonce
C19_NoncesAreDistinct ==
    \A i, j \in 1..Len(sent) : i < j => sent[i].nonce # sent[j].nonce

\* C20: when an approval and then a swap are sent in quick succession,
\* the nonce of each is read from the node's pending view
C20_NoncesFromPendingView ==
    /\ \A j \in Approvals : sent[j].view = "pending"
    /\ \A i \in TokenInSwaps : ApprovedBefore(i) => sent[i].view = "pending"


(***************************************************************************)
(* The gas oracle                                                          *)
(***************************************************************************)

\* the configured ceiling, in wei
GasCeiling == to_wei_gwei(max_gas_price_gwei)

\* C21: when the latest block exposes a base fee the oracle returns
\* min(2 x baseFee + priorityFee, ceiling); otherwise it returns
\* min(the node's suggested legacy gas price, ceiling)
C21_GasOracleFormula ==
    gas_out.returned =>
        IF latest_block.read /\ latest_block.has_base_fee
        THEN gas_out.fee =
                 BigMin(BigAdd(BigAdd(latest_block.baseFeePerGas, latest_block.baseFeePerGas),
                               to_wei_gwei(PriorityFeeTenths)),
                        GasCeiling)
        ELSE gas_out.fee = BigMin(network_gas_price, GasCeiling)

\* C22: the fee the oracle returns never exceeds the configured maximum
\* gas price, on every path through the oracle
C22_GasFeeWithinCeiling ==
    gas_out.returned => BigLe(gas_out.fee, GasCeiling)

\* the place of a probe in the order the specification gives: the singleton
\* manager, the concentrated-liquidity fee tiers from the lowest, the
\* constant-product venues as registered
ClaimedRank(probe) ==
    IF probe.venue = "uniswap_v4" THEN 0
    ELSE IF probe.venue = "uniswap_v3"
    THEN CHOOSE k \in 1..Len(V4FeeTiers) : V4FeeTiers[k] = probe.fee
    ELSE IF probe.venue = "uniswap_v2" THEN 5
    ELSE 6

\* C23: discovery probes the singleton-manager venue first, then the
\* concentrated-liquidity venue from the lowest fee tier to the highest, then
\* the constant-product venues in registration order.
C23_ProbeOrder ==
    disc.constructed =>
        /\ disc.log[1].venue = "uniswap_v4"
        /\ \A i, j \in 1..Len(disc.log) :
               i < j => ClaimedRank(disc.log[i]) < ClaimedRank(disc.log[j])

\* the answers of the chain with every failed probe read as no liquidity
AsNoLiquidity(answers) ==
    [i \in DOMAIN answers |->
        IF answers[i].ok THEN answers[i] ELSE [ok |-> TRUE, amount |-> 0]]

C25_SwapReprobes ==
    last_swap.called =>
        /\ last_swap.venue = last_swap.chosen_now
        /\ last_swap.fee = last_swap.chosen_fee_now


\* swaps of the V4 router whose expected output is the fixed-discount estimate
EstimatedSwaps ==
    {i \in 1..Len(sent) : sent[i].kind = "swap" /\ sent[i].route = "v4"
                          /\ sent[i].quote_source = "estimate"}

\* C26: a submitted swap whose minimum-output bound derives from the
\* fixed-discount fallback estimate carries a quote flagged as
\* low-confidence.
C26_EstimateIsFlagged ==
    \A i \in EstimatedSwaps : sent[i].low_confidence


\* the request names a malformed token address or an amount that is not
\* positive
InvalidRequest == ~is_address(request.token) \/ request.amount <= 0

\* C27: a request with a malformed address or an invalid amount ends at once
\* as a failure: one attempt, no retry, and no transaction sent for it.
C27_InvalidRequestNotRetriedNotSent ==
    (request.fn # NoValue /\ InvalidRequest /\ call.state # "idle") =>
        /\ call.state \in {"raised", "returned"}
        /\ call.attempts = 1
        /\ call.sent = 0
        /\ ~call.success


C29_ArchivedOnlyWhenEmpty ==
    [][(key_file = "present" /\ key_file' = "archived") =>
          \A w \in Wallets : swarm_wallets'[w].eth = 0 /\ swarm_wallets'[w].compute = 0]_vars

\* C30: reclaim_funds marks a wallet inactive only when all of its funds
\* were transferred and it holds nothing.
C30_InactiveOnlyWhenEmpty ==
    [][\A w \in Wallets :
          (swarm_wallets[w].is_active /\ ~swarm_wallets'[w].is_active) =>
              swarm_wallets'[w].eth = 0 /\ swarm_wallets'[w].compute = 0]_vars

\* C31: in ROUND_ROBIN rotation mode successive get_next_wallet calls on a
\* swarm of n wallets return the wallet indices 0, 1, ..., n-1 and then
\* repeat from 0: the k-th such call on the swarm, when it returns a wallet,
\* returns wallet (k - 1) mod n.
C31_RoundRobinOrder ==
    (/\ rotation.last.fn = "get_next_wallet"
     /\ rotation.last.mode = "round_robin"
     /\ rotation.last.returned # NoWalletReturned)
        => rotation.last.returned[1] =
               (rotation.calls_round_robin - 1) % Len(rotation.wallets)

\* C32: every swap transaction the engine submits carries a gas price no
\* greater than the configured maximum gas price.
C32_SwapGasPriceWithinMaximum ==
    \A i \in DOMAIN sent :
        sent[i].kind = "swap" => BigLe(sent[i].gasPrice, GasCeiling)

ExecutedSwaps == {i \in DOMAIN mined : mined[i] = 1 /\ sent[i].kind = "swap"}

\* C34: one buy request results in at most one swap transaction being
\* executed on chain, even when a confirmation wait times out and the attempt
\* is retried or the operation falls back to another route.
C34_AtMostOneSwapPerBuy ==
    op = "buy" => Cardinality(ExecutedSwaps) <= 1

\* C35: if direct multi-DEX routing fails, for any reason, the V4 Universal
\* Router is tried next before the operation is reported as failed.
C35_V4TriedAfterMultiDexFails ==
    pc = "done" =>
        \A i \in DOMAIN route_log :
            (route_log[i].route = "multidex" /\ ~route_log[i].ok)
                => v4_attempts # <<>>

\* the aggregator sales that aborted for lack of a usable quote
SalesWithoutQuote ==
    {i \in DOMAIN route_log :
        /\ op \in {"sell", "zerox_sell"}
        /\ route_log[i].route \in {"zerox", "oneinch"}
        /\ route_log[i].outcome \in {"NoQuote", "NoTransactionData"}}

\* C36: in an aggregator sell an approval transaction is sent only after a
\* usable quote (one that contains transaction data to execute) has been
\* obtained, so a sell that aborts for lack of a quote has sent no
\* transaction.
C36_NoQuoteNoTransaction ==
    \A i \in SalesWithoutQuote :
        \A j \in DOMAIN sent : sent[j].route # route_log[i].route

\* C37: in the bot's main loop a sell is attempted only when the number of
\* successful buys since the last successful sell has reached
\* sell_after_buys.
C37_SellOnlyAfterEnoughBuys ==
    loop.last.sell_attempted => loop.last.bought_before >= loop.sell_after_buys

\* C38: for every token pair and every fee tier, the pool identifier the
\* encoder computes for a swap payload when none is supplied equals the pool
\* identifier the pool manager derives for the same pair and fee.
C38_EncoderPoolIdIsManagerPoolId ==
    pool_out.fn = "encode_v4_swap" =>
        pool_out.payload.pool_id = pool_out.manager_pool_id

\* the call just made came after five failed decryption attempts, none
\* followed by a success, that lie within one hour, and less than 30 minutes
\* after the fifth
AfterFiveFailures ==
    /\ key_calls.last.fn = "load_and_decrypt"
    /\ Len(key_calls.last.failed_before) = LOCK_AFTER_ATTEMPTS
    /\ key_calls.last.failed_before[5] - key_calls.last.failed_before[1] <= ONE_HOUR
    /\ key_calls.last.at < key_calls.last.failed_before[5] + LOCK_MINUTES

\* C39: after five failed decryption attempts within one hour, every further
\* load_and_decrypt call, even with the correct password, returns None
\* without attempting decryption until 30 minutes have passed since the
\* fifth failure.
C39_LockedAfterFiveFailures ==
    AfterFiveFailures =>
        /\ key_calls.last.returned = NoValue
        /\ ~key_calls.last.decrypts

\* the nonces of the transactions the n-th swarm operation broadcast
BroadcastNonces(n) ==
    {tx.nonce : tx \in {t \in swarm_txs : t.op = "fund_swarm" /\ t.call = n /\ t.broadcast}}

\* C40: during fund_swarm the nonces of the funding transactions actually
\* broadcast form a gap-free strictly increasing sequence starting at the
\* funder's pending nonce, even when the send for some wallet fails.
C40_FundingNoncesGapFree ==
    \A n \in DOMAIN swarm_ops :
        (swarm_ops[n].op = "fund_swarm" /\ swarm_ops[n].result = "returned") =>
            BroadcastNonces(n) =
                swarm_ops[n].pending_nonce ..
                    (swarm_ops[n].pending_nonce + Cardinality(BroadcastNonces(n)) - 1)

====
